---- MODULE Spec2Model ----
(***************************************************************************)
(* Model of the signal scoring engine and the opportunity ranker of        *)
(* crypto-tracker (src/crypto_api.py).                                     *)
(*                                                                         *)
(* Number representation.  Python floats are modelled by exact scaled      *)
(* integers:                                                               *)
(*   - percent changes are whole percents;                                 *)
(*   - market_cap and volume_24h are in units of 10^7 USD, so 50e9 is 5000 *)
(*     and 10e9 is 1000;                                                   *)
(*   - price and budget are whole USD;                                     *)
(*   - investment_range and target_prices are in hundredths of a USD       *)
(*     (budget * (10*multiplier) * (10*fraction), price * (100*factor)).   *)
(* Display strings of the source are rendered in ASCII:                    *)
(*   timeframe  "short" / "medium" / "immediate"                           *)
(*   risk_level "low_risk" / "medium_risk" / "high_risk"                   *)
(***************************************************************************)
EXTENDS Integers, Sequences, FiniteSets, TLC

VARIABLES
    asset,          \* crypto_data argument of the latest direct scoring call
    risk,           \* user_risk_level argument of the latest call
    budget,         \* investment_budget argument of the latest call
    score,          \* local `score` of the latest direct scoring call
    signal,         \* value returned by the latest direct scoring call
    universe,       \* list get_top_cryptocurrencies(20) gave the latest ranking call
    opportunities,  \* value returned by the latest ranking call
    calls,          \* log of the calls made so far: arguments and result
    payload,        \* raw upstream response given to the normalizer
    listResult,     \* outcome of parse_crypto_data on the list-shaped payload
    singleResult,   \* outcome of parse_single_crypto_data on the map-shaped payload
    topResult,      \* outcome of get_top_cryptocurrencies on the list-shaped payload
    history,        \* history_data argument of generate_price_chart
    dates,          \* local `dates` of generate_price_chart
    prices,         \* local `prices` of generate_price_chart
    chart,          \* how far generate_price_chart got
    cryptocurrencies, \* rows of table cryptocurrencies
    price_history,  \* rows of table price_history
    user_watchlist, \* rows of table user_watchlist, in insertion order
    user_portfolio, \* rows of table user_portfolio, in insertion order
    sequence,       \* sqlite_sequence: last AUTOINCREMENT id given, per table
    now,            \* the clock, in days
    saves,          \* log of the save_crypto_data calls made so far
    request,        \* the request the web layer handled last
    response,       \* the response it gave
    altScore,       \* local `score` of test_chart.py's scoring function
    altSignal,      \* value returned by test_chart.py's scoring function
    frames,         \* locals of the invocations in progress, per thread
    figures         \* pyplot's registry of open figures, the last one current

scoreVars == <<asset, risk, budget, score, signal, universe, opportunities, calls>>
normVars == <<payload, listResult, singleResult, topResult>>
histVars == <<history, dates, prices, chart>>
storeVars == <<cryptocurrencies, price_history, user_watchlist, user_portfolio,
               sequence, now, saves, request, response>>
altVars == <<altScore, altSignal>>
concVars == <<frames, figures>>

vars == <<asset, risk, budget, score, signal, universe, opportunities, calls,
          payload, listResult, singleResult, topResult,
          history, dates, prices, chart,
          cryptocurrencies, price_history, user_watchlist, user_portfolio,
          sequence, now, saves, request, response,
          altScore, altSignal, frames, figures>>

----------------------------------------------------------------------------
(* Bounds of the model *)

MaxCalls == 3
MaxUniverse == 16
PatternLen == 3

----------------------------------------------------------------------------
(* Arithmetic helpers *)

Abs(x) == IF x < 0 THEN -x ELSE x
Min2(a, b) == IF a < b THEN a ELSE b
Max2(a, b) == IF a > b THEN a ELSE b

\* mutant: the upper limit is not applied
clampNoUpper(v, lo, hi) == Max2(lo, v)

\* def clamp(v, lo, hi): return max(lo, min(hi, v))
clamp(v, lo, hi) == Max2(lo, Min2(hi, v))

----------------------------------------------------------------------------
(* Values *)

\* Python None as a return value of enhanced_investment_analysis
NoSignal == [ok |-> FALSE]

\* A canonical asset quote.  kind = "quote": all fields numeric;
\* kind = "empty": None or {} (falsy); kind = "malformed": some field that
\* float() rejects.
Quote(sym, price, c24, c7, mc, vol) ==
    [kind |-> "quote", name |-> sym, symbol |-> sym, price |-> price,
     percent_change_24h |-> c24, percent_change_7d |-> c7,
     market_cap |-> mc, volume_24h |-> vol]

EmptyAsset == [kind |-> "empty", name |-> "", symbol |-> "", price |-> 0,
               percent_change_24h |-> 0, percent_change_7d |-> 0,
               market_cap |-> 0, volume_24h |-> 0]

MalformedAsset == [kind |-> "malformed", name |-> "BAD", symbol |-> "BAD",
                   price |-> 0, percent_change_24h |-> 0,
                   percent_change_7d |-> 0, market_cap |-> 0,
                   volume_24h |-> 0]

\* investment_budget: num = TRUE is a number v, num = FALSE is a value that
\* float() rejects (None, a non-numeric string)
NumBudget(v) == [num |-> TRUE, v |-> v]
BadBudget == [num |-> FALSE, v |-> 0]

----------------------------------------------------------------------------
(* enhanced_investment_analysis, step by step *)

\* 1. technical signal and trend_score
\* mutant: the trend adds or takes one point, whatever its strength
TrendScoreOnePoint(change_24h, change_7d) ==
    IF change_24h > 5 /\ change_7d > 10 THEN 1
    ELSE IF change_24h > 2 /\ change_7d > 5 THEN 1
    ELSE IF change_24h < -5 /\ change_7d < -10 THEN -1
    ELSE IF change_24h < -2 /\ change_7d < -5 THEN -1
    ELSE 0

TrendScore(change_24h, change_7d) ==
    IF change_24h > 5 /\ change_7d > 10 THEN 5
    ELSE IF change_24h > 2 /\ change_7d > 5 THEN 3
    ELSE IF change_24h < -5 /\ change_7d < -10 THEN -5
    ELSE IF change_24h < -2 /\ change_7d < -5 THEN -3
    ELSE 0

TrendSignal(change_24h, change_7d) ==
    IF change_24h > 5 /\ change_7d > 10 THEN "buy: strong uptrend"
    ELSE IF change_24h > 2 /\ change_7d > 5 THEN "hold: stable uptrend"
    ELSE IF change_24h < -5 /\ change_7d < -10 THEN "sell: strong downtrend"
    ELSE IF change_24h < -2 /\ change_7d < -5 THEN "watch: mild downtrend"
    ELSE "hold: ranging"

\* volume_ratio = (volume_24h / market_cap) if market_cap > 0 else 0;
\* VolumeRatioAbove(v, m, n, d) is  volume_ratio > n/d
VolumeRatioAbove(volume_24h, market_cap, n, d) ==
    IF market_cap > 0 THEN volume_24h * d > n * market_cap ELSE 0 > n

TechnicalSignals(change_24h, change_7d, volume_24h, market_cap) ==
    <<TrendSignal(change_24h, change_7d)>> \o
    (IF VolumeRatioAbove(volume_24h, market_cap, 1, 10)
     THEN <<"confirm: high volume">> ELSE <<>>)

\* 2. risk tagging
Volatility(change_24h, change_7d) == Abs(change_24h) + Abs(change_7d)

RiskTag(change_24h, change_7d) ==
    IF Volatility(change_24h, change_7d) > 25 THEN "high_risk"
    ELSE IF Volatility(change_24h, change_7d) > 15 THEN "medium_risk"
    ELSE "low_risk"

RiskFactor(change_24h, change_7d) ==
    IF Volatility(change_24h, change_7d) > 25 THEN "high volatility"
    ELSE IF Volatility(change_24h, change_7d) > 15 THEN "medium volatility"
    ELSE "low volatility"

\* 3. market-cap tier
McScore(market_cap) ==
    IF market_cap > 5000 THEN 3
    ELSE IF market_cap > 1000 THEN 1
    ELSE -2

McFactor(market_cap) ==
    IF market_cap > 5000 THEN "large cap"
    ELSE IF market_cap > 1000 THEN "mid cap"
    ELSE "small cap"

\* 4. composite score
Change24hScore(change_24h) ==
    IF change_24h > 10 THEN 5
    ELSE IF change_24h > 5 THEN 3
    ELSE IF change_24h > 0 THEN 1
    ELSE IF change_24h < -10 THEN -5
    ELSE IF change_24h < -5 THEN -3
    ELSE IF change_24h < 0 THEN -1
    ELSE 0

Change7dScore(change_7d) ==
    IF change_7d > 15 THEN 5
    ELSE IF change_7d > 10 THEN 3
    ELSE IF change_7d > 0 THEN 1
    ELSE IF change_7d < -15 THEN -5
    ELSE IF change_7d < -10 THEN -3
    ELSE IF change_7d < 0 THEN -1
    ELSE 0

VolumeScore(volume_24h, market_cap) ==
    IF VolumeRatioAbove(volume_24h, market_cap, 1, 10) THEN 2
    ELSE IF VolumeRatioAbove(volume_24h, market_cap, 1, 20) THEN 1
    ELSE 0

\* mutant: the composite score without the trend term
CompositeScoreNoTrend(a) ==
    Change24hScore(a.percent_change_24h)
    + Change7dScore(a.percent_change_7d)
    + McScore(a.market_cap)
    + VolumeScore(a.volume_24h, a.market_cap)

CompositeScore(a) ==
    Change24hScore(a.percent_change_24h)
    + Change7dScore(a.percent_change_7d)
    + McScore(a.market_cap)
    + VolumeScore(a.volume_24h, a.market_cap)
    + TrendScore(a.percent_change_24h, a.percent_change_7d)

\* mutant: a signed confidence centred on 50
ConfidenceSigned(s) == Max2(0, Min2(100, 50 + s * 5))

\* confidence = max(0, min(100, int(abs(score) * 10)))
Confidence(s) == Max2(0, Min2(100, Abs(s) * 10))

\* mutant: the HOLD band excludes its lower end
ActionOfStrict(s) ==
    IF s >= 8 THEN "BUY"
    ELSE IF s >= 4 THEN "BUY"
    ELSE IF s > -3 THEN "HOLD"
    ELSE IF s >= -7 THEN "SELL"
    ELSE "SELL"

\* 5. decision
ActionOf(s) ==
    IF s >= 8 THEN "BUY"
    ELSE IF s >= 4 THEN "BUY"
    ELSE IF s >= -3 THEN "HOLD"
    ELSE IF s >= -7 THEN "SELL"
    ELSE "SELL"

TimeframeOf(s) ==
    IF s >= 8 THEN "short"
    ELSE IF s >= 4 THEN "medium"
    ELSE IF s >= -3 THEN "short"
    ELSE IF s >= -7 THEN "short"
    ELSE "immediate"

\* 6. position sizing
\* try: budget = float(investment_budget) except: budget = 1000.0
BudgetOf(b) == IF b.num THEN b.v ELSE 1000

\* mutant: an unknown risk level falls back to the low multiplier
RiskMultiplierDefaultLow(r) ==
    IF r = "low" THEN 5
    ELSE IF r = "medium" THEN 10
    ELSE IF r = "high" THEN 15
    ELSE 5

\* mutant: the high-risk multiplier is 2.0
RiskMultiplierHighDouble(r) ==
    IF r = "low" THEN 5
    ELSE IF r = "medium" THEN 10
    ELSE IF r = "high" THEN 20
    ELSE 10

\* risk_multiplier.get(user_risk_level, 1.0), times 10
RiskMultiplier(r) ==
    IF r = "low" THEN 5
    ELSE IF r = "medium" THEN 10
    ELSE IF r = "high" THEN 15
    ELSE 10

\* mutant: a negative budget is not raised to 0
BaseInvestmentUnclamped(b, r) == BudgetOf(b) * RiskMultiplier(r)

\* base_investment = max(0.0, budget) * multiplier, in tenths of a USD
BaseInvestment(b, r) == Max2(0, BudgetOf(b)) * RiskMultiplier(r)

\* mutant: SELL is sized like HOLD
InvestmentRangeSellAsHold(action, s, base) ==
    IF action = "BUY" THEN
        IF s >= 8 THEN [min |-> base * 3, max |-> base * 7, recommended |-> base * 5]
        ELSE IF s >= 4 THEN [min |-> base * 2, max |-> base * 5, recommended |-> base * 3]
        ELSE [min |-> 0, max |-> base * 2, recommended |-> base * 1]
    ELSE [min |-> 0, max |-> base * 3, recommended |-> base * 1]

\* investment_range in hundredths of a USD
InvestmentRange(action, s, base) ==
    IF action = "BUY" THEN
        IF s >= 8 THEN [min |-> base * 3, max |-> base * 7, recommended |-> base * 5]
        ELSE IF s >= 4 THEN [min |-> base * 2, max |-> base * 5, recommended |-> base * 3]
        ELSE [min |-> 0, max |-> base * 2, recommended |-> base * 1]
    ELSE IF action = "SELL" THEN [min |-> 0, max |-> 0, recommended |-> 0]
    ELSE [min |-> 0, max |-> base * 3, recommended |-> base * 1]

\* mutant: the SELL stop loss reuses the 0.02 / 0.1 pair of the take profit
TargetPricesSellCopied(action, s, price) ==
    IF action = "BUY" THEN
        [take_profit |-> price * (100 + clamp(s * 3, 0, 20)),
         stop_loss |-> price * (100 - clamp(Abs(s) * 2, 0, 10))]
    ELSE IF action = "SELL" THEN
        [take_profit |-> price * (100 - clamp(Abs(s) * 2, 0, 10)),
         stop_loss |-> price * (100 + clamp(Abs(s) * 2, 0, 10))]
    ELSE
        [take_profit |-> price * 110, stop_loss |-> price * 90]

\* mutant: the BUY stop loss is put above the price
TargetPricesStopAbove(action, s, price) ==
    IF action = "BUY" THEN
        [take_profit |-> price * (100 + clamp(s * 3, 0, 20)),
         stop_loss |-> price * (100 + clamp(Abs(s) * 2, 0, 10))]
    ELSE IF action = "SELL" THEN
        [take_profit |-> price * (100 - clamp(Abs(s) * 2, 0, 10)),
         stop_loss |-> price * (100 + clamp(Abs(s) * 1, 0, 5))]
    ELSE
        [take_profit |-> price * 110, stop_loss |-> price * 90]

\* 7. target prices in hundredths of a USD
TargetPrices(action, s, price) ==
    IF action = "BUY" THEN
        [take_profit |-> price * (100 + clamp(s * 3, 0, 20)),
         stop_loss |-> price * (100 - clamp(Abs(s) * 2, 0, 10))]
    ELSE IF action = "SELL" THEN
        [take_profit |-> price * (100 - clamp(Abs(s) * 2, 0, 10)),
         stop_loss |-> price * (100 + clamp(Abs(s) * 1, 0, 5))]
    ELSE
        [take_profit |-> price * 110, stop_loss |-> price * 90]

\* mutant: the list is shared with the previous call instead of created anew
SharedList == IF signal.ok THEN signal.factors ELSE <<>>

\* "factors": [] and "technical_signals": [] of a new analysis dict
FreshList == <<>>

\* The analysis dict built for a numeric quote
Analysis(a, r, b) ==
    LET s == CompositeScore(a)
        act == ActionOf(s)
    IN [ok |-> TRUE,
        name |-> a.name,
        symbol |-> a.symbol,
        current_price |-> a.price,
        action |-> act,
        confidence |-> Confidence(s),
        investment_range |-> InvestmentRange(act, s, BaseInvestment(b, r)),
        target_prices |-> TargetPrices(act, s, a.price),
        timeframe |-> TimeframeOf(s),
        risk_level |-> RiskTag(a.percent_change_24h, a.percent_change_7d),
        factors |-> FreshList \o
                    <<RiskFactor(a.percent_change_24h, a.percent_change_7d),
                      McFactor(a.market_cap)>>,
        technical_signals |-> FreshList \o
                    TechnicalSignals(a.percent_change_24h, a.percent_change_7d,
                                     a.volume_24h, a.market_cap),
        disclaimer |-> "disclaimer"]

\* if not crypto_data: return None; a float() failure is caught: return None
enhanced_investment_analysis(a, r, b) ==
    IF a.kind = "empty" THEN NoSignal
    ELSE IF a.kind = "malformed" THEN NoSignal
    ELSE Analysis(a, r, b)

\* the local `score` at the end of the call (0 when the call returned early)
LocalScore(a) == IF a.kind = "quote" THEN CompositeScore(a) ELSE 0

----------------------------------------------------------------------------
(* analyze_portfolio_opportunities *)

\* get_top_cryptocurrencies(20)
FetchLimit == 20

\* return opportunities[:10]
TopN == 10

Recommended(sig) == sig.investment_range.recommended

\* for crypto in top_cryptos: analysis = ...; if analysis and recommended > 0:
\* opportunities.append(analysis)
RECURSIVE CollectOpportunities(_, _, _)
CollectOpportunities(top_cryptos, r, b) ==
    IF top_cryptos = <<>> THEN <<>>
    ELSE LET analysis == enhanced_investment_analysis(Head(top_cryptos), r, b)
             rest == CollectOpportunities(Tail(top_cryptos), r, b)
         IN IF analysis.ok /\ Recommended(analysis) > 0
            THEN <<analysis>> \o rest
            ELSE rest

\* mutant: an element is placed before the elements of equal key (the order
\* an ascending sort followed by a reversal gives)
RECURSIVE InsertBeforeEquals(_, _)
InsertBeforeEquals(sorted, x) ==
    IF sorted = <<>> THEN <<x>>
    ELSE IF Recommended(Head(sorted)) > Recommended(x)
         THEN <<Head(sorted)>> \o InsertBeforeEquals(Tail(sorted), x)
         ELSE <<x>> \o sorted

\* list.sort(key=recommended, reverse=True) is stable: an element goes after
\* every element whose key is greater or equal
RECURSIVE InsertDescending(_, _)
InsertDescending(sorted, x) ==
    IF sorted = <<>> THEN <<x>>
    ELSE IF Recommended(Head(sorted)) >= Recommended(x)
         THEN <<Head(sorted)>> \o InsertDescending(Tail(sorted), x)
         ELSE <<x>> \o sorted

RECURSIVE SortDescending(_)
SortDescending(seq) ==
    IF seq = <<>> THEN <<>>
    ELSE InsertDescending(SortDescending(SubSeq(seq, 1, Len(seq) - 1)),
                          seq[Len(seq)])

\* mutant: a scoring failure escapes the scorer and reaches the ranker's
\* `except Exception`, which returns []
RECURSIVE AnyScoringFailure(_)
AnyScoringFailure(top_cryptos) ==
    IF top_cryptos = <<>> THEN FALSE
    ELSE Head(top_cryptos).kind = "malformed" \/ AnyScoringFailure(Tail(top_cryptos))

RankAbortingOnFailure(top_cryptos, b, r) ==
    IF top_cryptos = <<>> \/ AnyScoringFailure(top_cryptos) THEN <<>>
    ELSE LET sorted == SortDescending(CollectOpportunities(top_cryptos, r, b))
         IN SubSeq(sorted, 1, Min2(TopN, Len(sorted)))

\* if not top_cryptos: return []; ...; return opportunities[:10]
analyze_portfolio_opportunities(top_cryptos, b, r) ==
    IF top_cryptos = <<>> THEN <<>>
    ELSE LET sorted == SortDescending(CollectOpportunities(top_cryptos, r, b))
         IN SubSeq(sorted, 1, Min2(TopN, Len(sorted)))

----------------------------------------------------------------------------
(* Outcomes of a call: not made yet, returned None, returned a value, or
   left the function with an exception *)

Pending == [status |-> "pending", value |-> <<>>, error |-> ""]
ReturnNone == [status |-> "none", value |-> <<>>, error |-> ""]
Return(v) == [status |-> "ok", value |-> v, error |-> ""]
Raise(e) == [status |-> "raise", value |-> <<>>, error |-> e]

----------------------------------------------------------------------------
(* Raw upstream payloads *)

\* A JSON value met by dict.get: a number, or null
PyNum(v) == [none |-> FALSE, v |-> v]
PyNone == [none |-> TRUE, v |-> 0]

\* An element of the data container.
\*   kind "record": a mapping; hasName / hasSymbol: the key is present;
\*     quote "usd": quote.USD is a mapping, "none": quote is missing or null,
\*     "bad": quote (or quote.USD) is a non-mapping such as a string;
\*     nums "present" / "null" / "absent": the numeric keys carry numbers,
\*     carry null, or are missing
\*   kind "null": JSON null;  kind "scalar": a non-empty string or a number
RawRecord(sym, hasName, hasSymbol, quote, nums) ==
    [kind |-> "record", sym |-> sym, hasName |-> hasName,
     hasSymbol |-> hasSymbol, quote |-> quote, nums |-> nums]

RawNull == [kind |-> "null", sym |-> "", hasName |-> FALSE,
            hasSymbol |-> FALSE, quote |-> "none", nums |-> "absent"]

RawScalar == [kind |-> "scalar", sym |-> "", hasName |-> FALSE,
              hasSymbol |-> FALSE, quote |-> "none", nums |-> "absent"]

\* the numbers upstream quotes for a symbol
Upstream(sym) ==
    IF sym = "BTC"
    THEN [name |-> "Bitcoin", price |-> 100, market_cap |-> 6000,
          volume_24h |-> 800, percent_change_1h |-> 1,
          percent_change_24h |-> 12, percent_change_7d |-> 18,
          circulating_supply |-> 19, max_supply |-> 21]
    ELSE [name |-> "Ethereum", price |-> 50, market_cap |-> 2000,
          volume_24h |-> 100, percent_change_1h |-> -1,
          percent_change_24h |-> -3, percent_change_7d |-> 6,
          circulating_supply |-> 120, max_supply |-> 130]

\* A payload value.  kind "none": None; "empty": {}; "nodata": a mapping
\* without the key 'data'; "nulldata": 'data' is null; "data": 'data' is a
\* container of shape "list" or "map" holding `records` in iteration order.
ShapedPayload(p, shape) ==
    [kind |-> p.kind, shape |-> shape, records |-> p.records]

----------------------------------------------------------------------------
(* parse_crypto_data and parse_single_crypto_data *)

\* mutant: a missing name is left empty instead of taking the placeholder
GetNameNoPlaceholder(item) == IF item.hasName THEN Upstream(item.sym).name ELSE ""

\* item.get(key, "Unknown") for the keys name and symbol
GetName(item) == IF item.hasName THEN Upstream(item.sym).name ELSE "Unknown"
GetSymbol(item) == IF item.hasSymbol THEN item.sym ELSE "Unknown"

\* quote_usd.get(key, 0): the number, null, or the default 0
QuoteGet(item, v) ==
    IF item.quote = "usd" /\ item.nums = "present" THEN PyNum(v)
    ELSE IF item.quote = "usd" /\ item.nums = "null" THEN PyNone
    ELSE PyNum(0)

\* item.get(key, 0) for circulating_supply and max_supply
ItemGet(item, v) ==
    IF item.nums = "present" THEN PyNum(v)
    ELSE IF item.nums = "null" THEN PyNone
    ELSE PyNum(0)

\* x or 0
OrZero(x) == IF x.none \/ x.v = 0 THEN 0 ELSE x.v

\* item.get(...) and (item.get("quote") or {}).get("USD") raise
\* AttributeError when item, quote or quote.USD is not a mapping
HasNoGet(item) == item.kind # "record" \/ item.quote = "bad"

\* mutant: the 7-day change is left out of the list-shaped record
ListRecordWithout7d(item) ==
    [name |-> GetName(item),
     symbol |-> GetSymbol(item),
     price |-> OrZero(QuoteGet(item, Upstream(item.sym).price)),
     market_cap |-> OrZero(QuoteGet(item, Upstream(item.sym).market_cap)),
     volume_24h |-> OrZero(QuoteGet(item, Upstream(item.sym).volume_24h)),
     percent_change_24h |-> OrZero(QuoteGet(item, Upstream(item.sym).percent_change_24h))]

\* crypto_info of parse_crypto_data
ListRecord(item) ==
    [name |-> GetName(item),
     symbol |-> GetSymbol(item),
     price |-> OrZero(QuoteGet(item, Upstream(item.sym).price)),
     market_cap |-> OrZero(QuoteGet(item, Upstream(item.sym).market_cap)),
     volume_24h |-> OrZero(QuoteGet(item, Upstream(item.sym).volume_24h)),
     percent_change_24h |-> OrZero(QuoteGet(item, Upstream(item.sym).percent_change_24h)),
     percent_change_7d |-> OrZero(QuoteGet(item, Upstream(item.sym).percent_change_7d))]

\* crypto_info of parse_single_crypto_data
SingleRecord(item) ==
    [name |-> GetName(item),
     symbol |-> GetSymbol(item),
     price |-> OrZero(QuoteGet(item, Upstream(item.sym).price)),
     market_cap |-> OrZero(QuoteGet(item, Upstream(item.sym).market_cap)),
     volume_24h |-> OrZero(QuoteGet(item, Upstream(item.sym).volume_24h)),
     percent_change_1h |-> OrZero(QuoteGet(item, Upstream(item.sym).percent_change_1h)),
     percent_change_24h |-> OrZero(QuoteGet(item, Upstream(item.sym).percent_change_24h)),
     percent_change_7d |-> OrZero(QuoteGet(item, Upstream(item.sym).percent_change_7d)),
     circulating_supply |-> OrZero(ItemGet(item, Upstream(item.sym).circulating_supply)),
     max_supply |-> OrZero(ItemGet(item, Upstream(item.sym).max_supply))]

\* mutant: only the missing key is tested, not the falsy payload
LacksDataKeyOnly(p) == p.kind = "nodata"

\* if not data or "data" not in data
LacksData(p) == p.kind \in {"none", "empty", "nodata"}

\* for i, item in enumerate(arr): try ... except (KeyError, TypeError):
\* continue.  The AttributeError of an element without .get is not in the
\* except tuple and leaves the function.
RECURSIVE ParseItems(_, _)
ParseItems(arr, crypto_list) ==
    IF arr = <<>> THEN Return(crypto_list)
    ELSE IF HasNoGet(Head(arr)) THEN Raise("AttributeError")
    ELSE ParseItems(Tail(arr), Append(crypto_list, ListRecord(Head(arr))))

parse_crypto_data(p) ==
    IF LacksData(p) THEN ReturnNone
    ELSE IF p.kind = "nulldata" \/ p.shape # "list" THEN ReturnNone
    ELSE ParseItems(p.records, <<>>)

\* mutant: the last key of the mapping is taken instead of the first
ParseSingleLastKey(p) ==
    IF LacksData(p) THEN ReturnNone
    ELSE IF p.kind = "nulldata" \/ p.records = <<>> THEN ReturnNone
    ELSE IF p.shape # "map" THEN Raise("AttributeError")
    ELSE LET last == p.records[Len(p.records)]
             item == IF last.kind = "null"
                     THEN RawRecord("", FALSE, FALSE, "none", "absent")
                     ELSE last
         IN IF HasNoGet(item) THEN Raise("AttributeError")
            ELSE Return(SingleRecord(item))

\* keys = list((data.get("data") or {}).keys()); item = data["data"][keys[0]]
\* or {}.  A list container has no .keys(): AttributeError, which the
\* except tuple (KeyError, IndexError, TypeError) does not hold.
parse_single_crypto_data(p) ==
    IF LacksData(p) THEN ReturnNone
    ELSE IF p.kind = "nulldata" \/ p.records = <<>> THEN ReturnNone
    ELSE IF p.shape # "map" THEN Raise("AttributeError")
    ELSE LET first == Head(p.records)
             item == IF first.kind = "null"
                     THEN RawRecord("", FALSE, FALSE, "none", "absent")
                     ELSE first
         IN IF HasNoGet(item) THEN Raise("AttributeError")
            ELSE Return(SingleRecord(item))

\* raw = _cmc_request(...); if not raw: return None;
\* try: return parse_crypto_data(raw) except Exception: return None
get_top_cryptocurrencies(p) ==
    IF p.kind \in {"none", "empty"} THEN ReturnNone
    ELSE IF parse_crypto_data(p).status = "raise" THEN ReturnNone
    ELSE parse_crypto_data(p)

----------------------------------------------------------------------------
(* generate_price_chart: the loop that parses history records *)

\* A timestamp value.
\*   "isoZ":    an ISO-8601 string with 'T' and a trailing 'Z'
\*   "isoT":    an ISO-8601 string with 'T' and no zone
\*   "isoDate": an ISO-8601 string without 'T' ('2024-01-05 00:00:00')
\*   "badstr":  any other string ('not-a-date')
\*   "instant": a datetime object
\*   "number":  an int or float
\*   "none":    None, also what record.get gives for a missing key
\* t is the day the value denotes, utc whether it carries the UTC offset.
Timestamp(kind, t, utc) == [kind |-> kind, t |-> t, utc |-> utc]

\* A price value: "num" a number, "numstr" a numeric string ('45000.5'),
\* "badstr" a string float() rejects, "none" None or a missing key.
\* v is the amount in tenths of a USD.
PriceValue(kind, v) == [kind |-> kind, v |-> v]

HistoryRecord(ts, price) == [timestamp |-> ts, price |-> price]

\* isinstance(timestamp, str)
IsStr(ts) == ts.kind \in {"isoZ", "isoT", "isoDate", "badstr"}

\* datetime.fromisoformat(timestamp.replace('Z', '+00:00')) or
\* datetime.fromisoformat(timestamp): raises ValueError on "badstr"
FromIsoFormatFails(ts) == ts.kind = "badstr"
\* mutant: the trailing 'Z' is cut off instead of being read as +00:00
FromIsoFormatNaive(ts) == Timestamp("instant", ts.t, FALSE)
FromIsoFormat(ts) == Timestamp("instant", ts.t, ts.kind = "isoZ")

\* float(price_val): raises ValueError on "badstr"
FloatFails(price) == price.kind = "badstr"
Float(price) == price.v

\* One pass of the loop body on `record`, from the lists so far to the lists
\* after it.  dates.append(date_obj) runs before float(price_val) is tried.
ParseRecord(record, ds, ps) ==
    IF IsStr(record.timestamp) /\ FromIsoFormatFails(record.timestamp)
    THEN [dates |-> ds, prices |-> ps]
    ELSE LET date_obj == IF IsStr(record.timestamp)
                         THEN FromIsoFormat(record.timestamp)
                         ELSE record.timestamp
         IN IF record.price.kind = "none" THEN [dates |-> ds, prices |-> ps]
            ELSE IF FloatFails(record.price)
                 THEN [dates |-> Append(ds, date_obj), prices |-> ps]
                 ELSE [dates |-> Append(ds, date_obj),
                       prices |-> Append(ps, Float(record.price))]

\* for record in reversed(history_data)
RECURSIVE ParseReversed(_, _, _)
ParseReversed(records, ds, ps) ==
    IF records = <<>> THEN [dates |-> ds, prices |-> ps]
    ELSE LET after == ParseRecord(records[Len(records)], ds, ps)
         IN ParseReversed(SubSeq(records, 1, Len(records) - 1),
                          after.dates, after.prices)

\* history_data: None, or a list of records
\* (rows: the records are sqlite3.Row objects, as database.py returns them,
\* not dicts)
NoHistory == [isNone |-> TRUE, records |-> <<>>, rows |-> FALSE]
HistoryList(records) == [isNone |-> FALSE, records |-> records, rows |-> FALSE]
RowList(records) == [isNone |-> FALSE, records |-> records, rows |-> TRUE]

\* The locals after the loop and how far the function got: "None" when it
\* returned None before plotting, "plot" when it went on to ax.plot(dates,
\* prices)
generate_price_chart(h) ==
    IF h.isNone \/ Len(h.records) = 0
    THEN [dates |-> <<>>, prices |-> <<>>, chart |-> "None"]
    ELSE IF h.rows
    THEN \* record.get: sqlite3.Row has no get; the AttributeError leaves the
         \* loop and is caught by the outer except
         [dates |-> <<>>, prices |-> <<>>, chart |-> "None"]
    ELSE LET parsed == ParseReversed(h.records, <<>>, <<>>)
         IN [dates |-> parsed.dates, prices |-> parsed.prices,
             chart |-> IF Len(parsed.dates) = 0 \/ Len(parsed.prices) = 0
                       THEN "None" ELSE "plot"]

----------------------------------------------------------------------------
(* enhanced_investment_analysis of src/test_chart.py, the second
   implementation of the scoring function *)

\* mutant: the volume term is left out
TestChartScoreNoVolume(a) ==
    Change24hScore(a.percent_change_24h)
    + Change7dScore(a.percent_change_7d)
    + McScore(a.market_cap)

\* 4. score: the 24h, 7d, market-cap and volume terms; there is no trend
\* term
TestChartScore(a) ==
    Change24hScore(a.percent_change_24h)
    + Change7dScore(a.percent_change_7d)
    + McScore(a.market_cap)
    + VolumeScore(a.volume_24h, a.market_cap)

\* confidence = max(0, min(100, 50 + (score * 5)))
TestChartConfidence(s) == Max2(0, Min2(100, 50 + s * 5))

\* round(n / d): to the nearest integer, a tie to the even one
RoundDiv(n, d) ==
    LET q == n \div d
        r == n % d
    IN IF 2 * r < d THEN q
       ELSE IF 2 * r > d THEN q + 1
       ELSE IF q % 2 = 0 THEN q ELSE q + 1

\* round(base_investment * fraction, 2) with base_investment = budget *
\* multiplier / 10, in hundredths of a USD
TestChartAmount(b, r, fraction) == RoundDiv(b.v * RiskMultiplier(r) * fraction, 10)

\* 6. investment_range
TestChartRange(action, s, b, r) ==
    IF action = "BUY" THEN
        IF s >= 8 THEN [min |-> TestChartAmount(b, r, 3),
                        max |-> TestChartAmount(b, r, 7),
                        recommended |-> TestChartAmount(b, r, 5)]
        ELSE IF s >= 4 THEN [min |-> TestChartAmount(b, r, 2),
                             max |-> TestChartAmount(b, r, 5),
                             recommended |-> TestChartAmount(b, r, 3)]
        ELSE [min |-> 0,
              max |-> TestChartAmount(b, r, 2),
              recommended |-> TestChartAmount(b, r, 1)]
    ELSE IF action = "SELL" THEN [min |-> 0, max |-> 0, recommended |-> 0]
    ELSE [min |-> 0,
          max |-> TestChartAmount(b, r, 3),
          recommended |-> TestChartAmount(b, r, 1)]

\* 7. target_prices: round(price * (1 +- min(limit, |score| * step)), 2), in
\* hundredths of a USD
TestChartTargets(action, s, price) ==
    IF action = "BUY" THEN
        [take_profit |-> RoundDiv(price * (100 + Min2(20, s * 3)), 1),
         stop_loss |-> RoundDiv(price * (100 - Min2(10, Abs(s) * 2)), 1)]
    ELSE IF action = "SELL" THEN
        [take_profit |-> RoundDiv(price * (100 - Min2(10, Abs(s) * 2)), 1),
         stop_loss |-> RoundDiv(price * (100 + Min2(5, Abs(s) * 1)), 1)]
    ELSE
        [take_profit |-> RoundDiv(price * 110, 1),
         stop_loss |-> RoundDiv(price * 90, 1)]

\* The outcome of the call: None for a falsy asset, for a field float()
\* rejects and for a budget that cannot be multiplied (TypeError); the
\* factors and technical_signals texts are left out
test_chart_analysis(a, r, b) ==
    IF a.kind # "quote" THEN ReturnNone
    ELSE IF ~b.num THEN ReturnNone
    ELSE LET s == TestChartScore(a)
             act == ActionOf(s)
         IN Return([name |-> a.name,
                    symbol |-> a.symbol,
                    current_price |-> a.price,
                    action |-> act,
                    confidence |-> TestChartConfidence(s),
                    investment_range |-> TestChartRange(act, s, b, r),
                    target_prices |-> TestChartTargets(act, s, a.price),
                    timeframe |-> TimeframeOf(s),
                    risk_level |-> RiskTag(a.percent_change_24h, a.percent_change_7d)])

\* its local `score` at the end of the call (0 when it returned early)
TestChartLocalScore(a) == IF a.kind = "quote" THEN TestChartScore(a) ELSE 0

----------------------------------------------------------------------------
(* The store (src/database.py) and the routes that write to it (src/app.py).
   Tables are the rows init_database's CREATE TABLE statements allow; time
   is counted in days. *)

\* bounds of the store
MaxSaves == 3
MaxRows == 2
MaxClock == 2

Tables == {"cryptocurrencies", "price_history", "user_watchlist", "user_portfolio"}

\* id INTEGER PRIMARY KEY AUTOINCREMENT: one more than the largest id the
\* table ever gave out
NextRowId(table) == sequence[table] + 1

\* INSERT OR REPLACE INTO cryptocurrencies (symbol, name, slug): symbol is
\* UNIQUE, so a row with the same symbol is deleted and a new row, with a
\* new id, is inserted
InsertOrReplaceCrypto(rows, id, symbol, name) ==
    {r \in rows : r.symbol # symbol}
        \cup {[id |-> id, symbol |-> symbol, name |-> name]}

\* SELECT id FROM cryptocurrencies WHERE symbol = ?; crypto_id = result[0]
\* if result else None (0 stands for None)
SelectCryptoId(rows, symbol) ==
    IF \E r \in rows : r.symbol = symbol
    THEN (CHOOSE r \in rows : r.symbol = symbol).id
    ELSE 0

\* INSERT OR IGNORE INTO price_history: ignored when UNIQUE(crypto_id,
\* timestamp) is violated
PriceConflict(rows, crypto_id, timestamp) ==
    \E r \in rows : r.crypto_id = crypto_id /\ r.timestamp = timestamp

InsertOrIgnorePrice(rows, id, crypto_id, timestamp, price) ==
    IF PriceConflict(rows, crypto_id, timestamp) THEN rows
    ELSE rows \cup {[id |-> id, crypto_id |-> crypto_id,
                     timestamp |-> timestamp, price |-> price]}

\* save_crypto_data(crypto_data): the tables and counters it leaves, and the
\* crypto_id it returns
save_crypto_data(crypto_data) ==
    LET cid == NextRowId("cryptocurrencies")
        cryptos == InsertOrReplaceCrypto(cryptocurrencies, cid,
                                         crypto_data.symbol, crypto_data.name)
        crypto_id == SelectCryptoId(cryptos, crypto_data.symbol)
        inserted == crypto_id # 0 /\ ~PriceConflict(price_history, crypto_id, now)
        prices_after == IF crypto_id # 0
                        THEN InsertOrIgnorePrice(price_history,
                                 NextRowId("price_history"), crypto_id, now,
                                 crypto_data.price)
                        ELSE price_history
    IN [cryptocurrencies |-> cryptos,
        price_history |-> prices_after,
        sequence |-> [sequence EXCEPT
                         !["cryptocurrencies"] = cid,
                         !["price_history"] = IF inserted THEN @ + 1 ELSE @],
        crypto_id |-> crypto_id]

\* SELECT ... FROM price_history ph JOIN cryptocurrencies c ON ph.crypto_id =
\* c.id WHERE c.symbol = ? AND ph.timestamp >= datetime('now', '-days days')
SelectPrices(symbol, days) ==
    {ph \in price_history :
        /\ \E c \in cryptocurrencies : c.id = ph.crypto_id /\ c.symbol = symbol
        /\ ph.timestamp >= now - days}

\* ORDER BY ph.timestamp DESC (rows of one crypto_id have distinct
\* timestamps; the id decides between rows of equal timestamp)
RECURSIVE OrderByTimestampDesc(_)
OrderByTimestampDesc(rows) ==
    IF rows = {} THEN <<>>
    ELSE LET first == CHOOSE r \in rows : \A o \in rows :
                          \/ o.timestamp < r.timestamp
                          \/ (o.timestamp = r.timestamp /\ o.id <= r.id)
         IN <<first>> \o OrderByTimestampDesc(rows \ {first})

\* A fetched row as the caller sees it: sqlite3.Row with the timestamp text
\* datetime.now().isoformat() wrote (it has a 'T' and no zone) and the REAL
\* price, here in tenths of a USD
RECURSIVE AsRows(_)
AsRows(rows) ==
    IF rows = <<>> THEN <<>>
    ELSE <<HistoryRecord(Timestamp("isoT", Head(rows).timestamp, FALSE),
                         PriceValue("num", Head(rows).price * 10))>>
         \o AsRows(Tail(rows))

\* get_historical_prices(symbol, days): cursor.fetchall()
get_historical_prices(symbol, days) ==
    RowList(AsRows(OrderByTimestampDesc(SelectPrices(symbol, days))))

\* INSERT OR IGNORE INTO user_watchlist (symbol, user_notes, alert_price):
\* the table has no UNIQUE constraint but the primary key, which the insert
\* does not set, so nothing is ever ignored; the result is the rows and
\* cursor.rowcount > 0
add_to_watchlist(rows, symbol, alert_price) ==
    [rows |-> Append(rows, [symbol |-> symbol, alert_price |-> alert_price]),
     added |-> TRUE]

\* a positional argument the caller did not pass
Missing == [kind |-> "missing", v |-> 0]

\* add_to_portfolio(symbol, quantity, buy_price, buy_date, notes=""):
\* buy_date has no default, a call without it raises TypeError before the
\* body runs
add_to_portfolio(rows, symbol, quantity, buy_price, buy_date) ==
    IF buy_date = Missing
    THEN [rows |-> rows, outcome |-> Raise("TypeError")]
    ELSE [rows |-> Append(rows, [symbol |-> symbol, quantity |-> quantity,
                                 buy_price |-> buy_price, buy_date |-> buy_date]),
          outcome |-> Return(sequence["user_portfolio"] + 1)]

\* (data.get('symbol') or '').upper().strip()
UpperStrip(raw) ==
    CASE raw = "btc" -> "BTC"
      [] raw = " eth " -> "ETH"
      [] raw = " " -> ""
      [] OTHER -> raw

\* float(x) in the routes: TypeError on None, ValueError on a string that is
\* no number
RouteFloatFails(x) == x.kind \in {"none", "badstr"}

Json(code, success, text) == [code |-> code, success |-> success, text |-> text]
NoRequest == [route |-> "none"]
NoResponse == Json(0, "absent", "")

\* api_add_to_watchlist: the response and the table it leaves
api_add_to_watchlist(raw_symbol, alert_price) ==
    LET symbol == UpperStrip(raw_symbol)
        added == add_to_watchlist(user_watchlist, symbol,
                     IF alert_price.kind = "none" THEN 0 ELSE Float(alert_price))
    IN IF symbol = ""
       THEN [response |-> Json(400, "absent", "Symbol is required"),
             rows |-> user_watchlist]
       ELSE IF alert_price.kind # "none" /\ RouteFloatFails(alert_price)
       THEN [response |-> Json(400, "absent", "alert_price format"),
             rows |-> user_watchlist]
       ELSE IF alert_price.kind # "none" /\ Float(alert_price) <= 0
       THEN [response |-> Json(400, "absent", "alert_price positive"),
             rows |-> user_watchlist]
       ELSE IF added.added
       THEN [response |-> Json(200, "true", "Added to watchlist"),
             rows |-> added.rows]
       ELSE [response |-> Json(200, "false", "Already in watchlist"),
             rows |-> added.rows]

\* api_portfolio_add: the response and the table it leaves;
\* add_to_portfolio(symbol, amount, cost) is called without buy_date
api_portfolio_add(raw_symbol, amount, cost) ==
    LET symbol == UpperStrip(raw_symbol)
    IN IF symbol = ""
       THEN [response |-> Json(400, "absent", "Symbol is required"),
             rows |-> user_portfolio]
       ELSE IF RouteFloatFails(amount) \/ RouteFloatFails(cost)
       THEN [response |-> Json(400, "absent", "amount and cost numeric"),
             rows |-> user_portfolio]
       ELSE IF Float(amount) <= 0 \/ Float(cost) <= 0
       THEN [response |-> Json(400, "absent", "amount and cost positive"),
             rows |-> user_portfolio]
       ELSE LET added == add_to_portfolio(user_portfolio, symbol,
                                          Float(amount), Float(cost), Missing)
            IN IF added.outcome.status = "raise"
               THEN [response |-> Json(500, "absent", added.outcome.error),
                     rows |-> added.rows]
               ELSE [response |-> Json(200, "true", ""), rows |-> added.rows]

----------------------------------------------------------------------------
(* Inputs *)

Changes24h == {-12, -10, -6, -5, -3, -2, -1, 0, 1, 2, 3, 5, 6, 10, 12}
Changes7d == {-18, -15, -12, -10, -6, -5, -1, 0, 1, 5, 6, 10, 12, 15, 18}
MarketCaps == {0, 100, 1000, 2000, 5000, 6000}
Volumes == {0, 1, 100, 200, 600, 800}
Prices == {0, 100}
RiskLevels == {"low", "medium", "high", "extreme"}
Budgets == {NumBudget(-500), NumBudget(1000), BadBudget}

ScoreAssets ==
    {Quote("BTC", p, c24, c7, mc, vol) :
        p \in Prices, c24 \in Changes24h, c7 \in Changes7d,
        mc \in MarketCaps, vol \in Volumes}
    \cup {EmptyAsset, MalformedAsset}

----------------------------------------------------------------------------
(* Operations *)

\* A call of enhanced_investment_analysis(a, r, b)
Analyze(a, r, b) ==
    /\ asset' = a
    /\ risk' = r
    /\ budget' = b
    /\ score' = LocalScore(a)
    /\ signal' = enhanced_investment_analysis(a, r, b)
    /\ calls' = Append(calls, [fn |-> "analyze", asset |-> a, risk |-> r,
                               budget |-> b,
                               result |-> signal'])
    /\ UNCHANGED <<universe, opportunities>>
    /\ UNCHANGED <<normVars, histVars, storeVars, altVars, concVars>>

\* A call of analyze_portfolio_opportunities(b, r) during which the upstream
\* listing is top_cryptos (an empty listing stands for None as well)
Rank(top_cryptos, b, r) ==
    /\ universe' = top_cryptos
    /\ risk' = r
    /\ budget' = b
    /\ opportunities' = analyze_portfolio_opportunities(top_cryptos, b, r)
    /\ calls' = Append(calls, [fn |-> "rank", universe |-> top_cryptos,
                               risk |-> r, budget |-> b,
                               result |-> opportunities'])
    /\ UNCHANGED <<asset, score, signal>>
    /\ UNCHANGED <<normVars, histVars, storeVars, altVars, concVars>>

\* A call of parse_crypto_data on the payload in its list shape
ParseList ==
    /\ listResult = Pending
    /\ listResult' = parse_crypto_data(ShapedPayload(payload, "list"))
    /\ UNCHANGED <<scoreVars, payload, singleResult, topResult, histVars>>
    /\ UNCHANGED <<storeVars, altVars, concVars>>

\* A call of parse_single_crypto_data on the payload in its map shape
ParseSingle ==
    /\ singleResult = Pending
    /\ singleResult' = parse_single_crypto_data(ShapedPayload(payload, "map"))
    /\ UNCHANGED <<scoreVars, payload, listResult, topResult, histVars>>
    /\ UNCHANGED <<storeVars, altVars, concVars>>

\* A call of get_top_cryptocurrencies that receives the payload in its list
\* shape
GetTop ==
    /\ topResult = Pending
    /\ topResult' = get_top_cryptocurrencies(ShapedPayload(payload, "list"))
    /\ UNCHANGED <<scoreVars, payload, listResult, singleResult, histVars>>
    /\ UNCHANGED <<storeVars, altVars, concVars>>

\* A call of generate_price_chart(symbol, history)
Chart ==
    /\ chart = "pending"
    /\ dates' = generate_price_chart(history).dates
    /\ prices' = generate_price_chart(history).prices
    /\ chart' = generate_price_chart(history).chart
    /\ UNCHANGED <<scoreVars, normVars, history>>
    /\ UNCHANGED <<storeVars, altVars, concVars>>

\* What upstream answers to a quote request for `symbol`: nothing, or a
\* quote that parse_single_crypto_data turned into crypto_info
NoQuote == [ok |-> FALSE, symbol |-> "", name |-> "", price |-> 0]
Fetched(symbol, price) ==
    [ok |-> TRUE, symbol |-> symbol, name |-> Upstream(symbol).name, price |-> price]

\* get_cryptocurrency_info(symbol): `if crypto_info and save_crypto_data:
\* save_crypto_data(crypto_info)`
GetCryptocurrencyInfo(crypto_info) ==
    IF crypto_info.ok
    THEN LET after == save_crypto_data(crypto_info)
         IN /\ Len(saves) < MaxSaves
            /\ cryptocurrencies' = after.cryptocurrencies
            /\ price_history' = after.price_history
            /\ sequence' = after.sequence
            /\ saves' = Append(saves, [symbol |-> crypto_info.symbol,
                                       price |-> crypto_info.price,
                                       timestamp |-> now,
                                       crypto_id |-> after.crypto_id])
    ELSE UNCHANGED <<cryptocurrencies, price_history, sequence, saves>>

\* GET /api/crypto/<symbol>
ApiCryptoDetail(symbol, crypto_info) ==
    /\ GetCryptocurrencyInfo(crypto_info)
    /\ request' = [route |-> "api_crypto", symbol |-> symbol]
    /\ response' = IF crypto_info.ok THEN Json(200, "absent", symbol)
                   ELSE Json(404, "absent", "Crypto not found")
    /\ UNCHANGED <<user_watchlist, user_portfolio, now>>
    /\ UNCHANGED <<scoreVars, normVars, histVars, altVars, concVars>>

\* GET /crypto/<symbol>?days=: the page fetches (and saves) the quote, reads
\* the stored history and charts it when there is any
CryptoDetail(symbol, crypto_info, days) ==
    /\ GetCryptocurrencyInfo(crypto_info)
    /\ UNCHANGED <<user_watchlist, user_portfolio, now>>
    /\ history' = (get_historical_prices(symbol, days))'
    /\ dates' = generate_price_chart(history').dates
    /\ prices' = generate_price_chart(history').prices
    /\ chart' = generate_price_chart(history').chart
    /\ request' = [route |-> "crypto", symbol |-> symbol, days |-> days]
    /\ response' = Json(200, "absent", chart')
    /\ UNCHANGED <<scoreVars, normVars, altVars, concVars>>

\* POST /api/watchlist/add
ApiAddToWatchlist(raw_symbol, alert_price) ==
    /\ Len(user_watchlist) < MaxRows
    /\ request' = [route |-> "watchlist_add", symbol |-> raw_symbol,
                   alert_price |-> alert_price]
    /\ response' = api_add_to_watchlist(raw_symbol, alert_price).response
    /\ user_watchlist' = api_add_to_watchlist(raw_symbol, alert_price).rows
    /\ sequence' = [sequence EXCEPT !["user_watchlist"] =
                        @ + Len(user_watchlist') - Len(user_watchlist)]
    /\ UNCHANGED <<cryptocurrencies, price_history, user_portfolio, now, saves>>
    /\ UNCHANGED <<scoreVars, normVars, histVars, altVars, concVars>>

\* POST /api/portfolio/add
ApiPortfolioAdd(raw_symbol, amount, cost) ==
    /\ Len(user_portfolio) < MaxRows
    /\ request' = [route |-> "portfolio_add", symbol |-> raw_symbol,
                   amount |-> amount, cost |-> cost]
    /\ response' = api_portfolio_add(raw_symbol, amount, cost).response
    /\ user_portfolio' = api_portfolio_add(raw_symbol, amount, cost).rows
    /\ sequence' = [sequence EXCEPT !["user_portfolio"] =
                        @ + Len(user_portfolio') - Len(user_portfolio)]
    /\ UNCHANGED <<cryptocurrencies, price_history, user_watchlist, now, saves>>
    /\ UNCHANGED <<scoreVars, normVars, histVars, altVars, concVars>>

\* a day passes
Tick ==
    /\ now < MaxClock
    /\ now' = now + 1
    /\ UNCHANGED <<cryptocurrencies, price_history, user_watchlist,
                   user_portfolio, sequence, saves, request, response>>
    /\ UNCHANGED <<scoreVars, normVars, histVars, altVars, concVars>>

\* A call of test_chart.py's enhanced_investment_analysis(a, r, b)
AnalyzeTestChart(a, r, b) ==
    /\ altSignal = Pending
    /\ altScore' = TestChartLocalScore(a)
    /\ altSignal' = test_chart_analysis(a, r, b)
    /\ UNCHANGED <<scoreVars, normVars, histVars, storeVars, concVars>>

\* The state of a component before any call with no input chosen
ScoreIdle ==
    /\ asset = EmptyAsset
    /\ risk = "medium"
    /\ budget = NumBudget(1000)
    /\ score = 0
    /\ signal = NoSignal
    /\ universe = <<>>
    /\ opportunities = <<>>
    /\ calls = <<>>

NormPending ==
    /\ listResult = Pending
    /\ singleResult = Pending
    /\ topResult = Pending

NormIdle == payload = [kind |-> "none", records |-> <<>>] /\ NormPending

HistPending ==
    /\ dates = <<>>
    /\ prices = <<>>
    /\ chart = "pending"

HistIdle == history = NoHistory /\ HistPending

\* the store after init_database, before any request
StoreIdle ==
    /\ cryptocurrencies = {}
    /\ price_history = {}
    /\ user_watchlist = <<>>
    /\ user_portfolio = <<>>
    /\ sequence = [t \in Tables |-> 0]
    /\ now = 0
    /\ saves = <<>>
    /\ request = NoRequest
    /\ response = NoResponse

AltIdle ==
    /\ altScore = 0
    /\ altSignal = Pending

ConcIdle ==
    /\ frames = <<>>
    /\ figures = <<>>

----------------------------------------------------------------------------
(* SpecScore: the scoring function applied to every input of the grid *)

InitScore ==
    /\ asset \in ScoreAssets
    /\ risk \in RiskLevels
    /\ budget \in Budgets
    /\ score = 0
    /\ signal = NoSignal
    /\ universe = <<>>
    /\ opportunities = <<>>
    /\ calls = <<>>
    /\ NormIdle
    /\ HistIdle
    /\ StoreIdle
    /\ AltIdle
    /\ ConcIdle

AnalyzeOnce == calls = <<>> /\ Analyze(asset, risk, budget)

NextScore == AnalyzeOnce

SpecScore == InitScore /\ [][NextScore]_vars

----------------------------------------------------------------------------
(* SpecRank: the ranker applied twice to a fixed universe *)

Symbols == <<"S01", "S02", "S03", "S04", "S05", "S06", "S07", "S08", "S09",
             "S10", "S11", "S12", "S13", "S14", "S15", "S16", "S17", "S18",
             "S19", "S20">>

\* asset classes of the listings: score 20 (BUY), score 7 (BUY), score 3
\* (HOLD), score -17 (SELL), and a record float() rejects
RankClass(k, sym) ==
    CASE k = 1 -> Quote(sym, 100, 12, 18, 6000, 800)
      [] k = 2 -> Quote(sym, 100, 6, 1, 6000, 0)
      [] k = 3 -> Quote(sym, 100, 0, 0, 6000, 0)
      [] k = 4 -> Quote(sym, 100, -12, -18, 100, 1)
      [] OTHER -> [MalformedAsset EXCEPT !.name = sym, !.symbol = sym]

RankClasses == {1, 2, 3, 4, 5}

\* the listing of n assets whose classes repeat the pattern
Listing(pattern, n) ==
    [i \in 1..n |-> RankClass(pattern[((i - 1) % PatternLen) + 1], Symbols[i])]

Listings ==
    {Listing(pattern, n) :
        pattern \in [1..PatternLen -> RankClasses],
        n \in 0..Min2(MaxUniverse, FetchLimit)}

InitRank ==
    /\ asset = EmptyAsset
    /\ score = 0
    /\ signal = NoSignal
    /\ universe \in Listings
    /\ risk \in {"low", "high"}
    /\ budget \in {NumBudget(1000), NumBudget(-500)}
    /\ opportunities = <<>>
    /\ calls = <<>>
    /\ NormIdle
    /\ HistIdle
    /\ StoreIdle
    /\ AltIdle
    /\ ConcIdle

RankFixed == Len(calls) < 2 /\ Rank(universe, budget, risk)

NextRank == RankFixed

SpecRank == InitRank /\ [][NextRank]_vars

----------------------------------------------------------------------------
(* Spec: direct scoring calls and ranking calls in any order *)

CallAssets ==
    {Quote("BTC", 100, 12, 18, 6000, 800),
     Quote("DOGE", 100, -12, -18, 100, 1),
     EmptyAsset}

CallListings ==
    {<<>>,
     <<Quote("ETH", 100, 0, 0, 6000, 0), Quote("BTC", 100, 12, 18, 6000, 800)>>}

Init ==
    /\ asset = EmptyAsset
    /\ risk = "medium"
    /\ budget = NumBudget(1000)
    /\ score = 0
    /\ signal = NoSignal
    /\ universe = <<>>
    /\ opportunities = <<>>
    /\ calls = <<>>
    /\ NormIdle
    /\ HistIdle
    /\ StoreIdle
    /\ AltIdle
    /\ ConcIdle

CallAnalyze ==
    /\ Len(calls) < MaxCalls
    /\ \E a \in CallAssets, r \in {"low", "medium"},
          b \in {NumBudget(1000), BadBudget} : Analyze(a, r, b)

CallRank ==
    /\ Len(calls) < MaxCalls
    /\ \E u \in CallListings, r \in {"low", "medium"} :
            Rank(u, NumBudget(1000), r)

Next == CallAnalyze \/ CallRank

Spec == Init /\ [][Next]_vars

----------------------------------------------------------------------------
(* SpecNorm: the normalizer applied to every payload of a bounded family *)

MaxRecords == 2

RawRecords ==
    {RawRecord(sym, hasName, hasSymbol, "usd", nums) :
        sym \in {"BTC", "ETH"}, hasName \in BOOLEAN, hasSymbol \in BOOLEAN,
        nums \in {"present", "null", "absent"}}
    \cup {RawRecord(sym, TRUE, TRUE, quote, "absent") :
        sym \in {"BTC", "ETH"}, quote \in {"none", "bad"}}
    \cup {RawNull, RawScalar}

RECURSIVE SeqsUpTo(_, _)
SeqsUpTo(S, n) ==
    IF n = 0 THEN {<<>>}
    ELSE LET shorter == SeqsUpTo(S, n - 1)
         IN shorter \cup {Append(q, x) : q \in {r \in shorter : Len(r) = n - 1}, x \in S}

Payloads ==
    {[kind |-> k, records |-> <<>>] : k \in {"none", "empty", "nodata", "nulldata"}}
    \cup {[kind |-> "data", records |-> recs] : recs \in SeqsUpTo(RawRecords, MaxRecords)}

InitNorm ==
    /\ ScoreIdle
    /\ HistIdle
    /\ StoreIdle
    /\ AltIdle
    /\ ConcIdle
    /\ payload \in Payloads
    /\ NormPending

NextNorm == ParseList \/ ParseSingle \/ GetTop

SpecNorm == InitNorm /\ [][NextNorm]_vars

----------------------------------------------------------------------------
(* SpecHist: the history parser applied to every history of a bounded
   family *)

MaxHistory == 2

\* the price quoted on day t, in tenths of a USD
PriceAt(t) == IF t = 5 THEN 450005 ELSE 460000

HistoryRecords ==
    {HistoryRecord(Timestamp(tk, t, tk = "instant"), PriceValue(pk, PriceAt(t))) :
        tk \in {"isoZ", "isoT", "isoDate", "badstr", "instant", "number", "none"},
        t \in {5, 6},
        pk \in {"num", "numstr", "badstr", "none"}}

Histories ==
    {NoHistory} \cup {HistoryList(recs) : recs \in SeqsUpTo(HistoryRecords, MaxHistory)}

InitHist ==
    /\ ScoreIdle
    /\ NormIdle
    /\ history \in Histories
    /\ HistPending
    /\ StoreIdle
    /\ AltIdle
    /\ ConcIdle

NextHist == Chart

SpecHist == InitHist /\ [][NextHist]_vars

----------------------------------------------------------------------------
(* SpecEntry: every entry point applied once to inputs with and without
   data *)

EntryPayloads ==
    {[kind |-> k, records |-> <<>>] : k \in {"none", "empty", "nodata", "data"}}
    \cup {[kind |-> "data", records |-> <<RawRecord("BTC", TRUE, TRUE, "usd", "present")>>]}

EntryHistories ==
    {NoHistory, HistoryList(<<>>),
     HistoryList(<<HistoryRecord(Timestamp("isoZ", 5, FALSE), PriceValue("numstr", 450005))>>)}

InitEntry ==
    /\ asset \in {EmptyAsset, Quote("BTC", 100, 12, 18, 6000, 800)}
    /\ risk = "medium"
    /\ budget = NumBudget(1000)
    /\ score = 0
    /\ signal = NoSignal
    /\ universe \in {<<>>, <<Quote("BTC", 100, 12, 18, 6000, 800)>>}
    /\ opportunities = <<>>
    /\ calls = <<>>
    /\ payload \in EntryPayloads
    /\ NormPending
    /\ history \in EntryHistories
    /\ HistPending
    /\ StoreIdle
    /\ AltIdle
    /\ ConcIdle

NotYetCalled(fn) == \A i \in 1..Len(calls) : calls[i].fn # fn

EntryAnalyze == NotYetCalled("analyze") /\ Analyze(asset, risk, budget)

EntryRank == NotYetCalled("rank") /\ Rank(universe, budget, risk)

NextEntry ==
    EntryAnalyze \/ EntryRank \/ ParseList \/ ParseSingle \/ GetTop \/ Chart

SpecEntry == InitEntry /\ [][NextEntry]_vars

----------------------------------------------------------------------------
(* SpecStore: the routes that save and read quotes, in any order *)

StoreSymbols == {"BTC", "ETH"}
Quotes(symbol) == {NoQuote, Fetched(symbol, 100), Fetched(symbol, 110)}
Windows == {1, 2}
RawSymbols == {"", "btc", " eth "}
AlertPrices == {PriceValue("none", 0), PriceValue("num", 5), PriceValue("num", 0)}
Amounts == {PriceValue("num", 2), PriceValue("numstr", 3), PriceValue("num", 0),
            PriceValue("badstr", 0), PriceValue("none", 0)}

InitStore ==
    /\ ScoreIdle
    /\ NormIdle
    /\ HistIdle
    /\ StoreIdle
    /\ AltIdle
    /\ ConcIdle

SaveQuote == \E symbol \in StoreSymbols : \E q \in Quotes(symbol) :
                 ApiCryptoDetail(symbol, q)

ShowDetail == \E symbol \in StoreSymbols, days \in Windows :
                  \E q \in Quotes(symbol) : CryptoDetail(symbol, q, days)

WatchlistAdd == \E raw \in RawSymbols, a \in AlertPrices : ApiAddToWatchlist(raw, a)

PortfolioAdd == \E raw \in RawSymbols, amount \in Amounts, cost \in Amounts :
                    ApiPortfolioAdd(raw, amount, cost)

NextStore == SaveQuote \/ ShowDetail \/ Tick

SpecStore == InitStore /\ [][NextStore]_vars

----------------------------------------------------------------------------
(* SpecLists: the routes that add to the watchlist and to the portfolio, in
   any order *)

NextLists == WatchlistAdd \/ PortfolioAdd

SpecLists == InitStore /\ [][NextLists]_vars

----------------------------------------------------------------------------
(* SpecBoth: the two implementations of the scoring function applied to the
   same arguments *)

BothAssets ==
    {Quote("BTC", 100, c24, c7, mc, vol) :
        c24 \in Changes24h, c7 \in Changes7d,
        mc \in {100, 2000, 6000}, vol \in {0, 100, 800}}
    \cup {EmptyAsset, MalformedAsset}

InitBoth ==
    /\ asset \in BothAssets
    /\ risk \in {"low", "medium", "high"}
    /\ budget \in {NumBudget(1000), BadBudget}
    /\ score = 0
    /\ signal = NoSignal
    /\ universe = <<>>
    /\ opportunities = <<>>
    /\ calls = <<>>
    /\ NormIdle
    /\ HistIdle
    /\ StoreIdle
    /\ AltIdle
    /\ ConcIdle

AnalyzeTestChartOnce == AnalyzeTestChart(asset, risk, budget)

NextBoth == AnalyzeOnce \/ AnalyzeTestChartOnce

SpecBoth == InitBoth /\ [][NextBoth]_vars

----------------------------------------------------------------------------
(* SpecConc: concurrent invocations of the four components.  The server of
   app.py handles requests in threads, so calls of parse_crypto_data,
   enhanced_investment_analysis, analyze_portfolio_opportunities and
   generate_price_chart interleave.  `frames` holds one invocation per thread
   with its arguments, its position and its locals; `figures` is the figure
   registry of matplotlib.pyplot, which belongs to the process: its last
   element is the current figure. *)

\* the threads serving requests
Threads == {1, 2}

NoImage == [title |-> "", dates |-> <<>>, prices |-> <<>>]

\* A call of fn(input) that has not started: i the loop index, dates and
\* prices the lists a loop fills, image the bytes savefig wrote to buf
Invocation(fn, input) ==
    [fn |-> fn, input |-> input, pc |-> "start", i |-> 0,
     dates |-> <<>>, prices |-> <<>>, image |-> NoImage, result |-> Pending]

\* return value
Done(f, value) == [f EXCEPT !.pc = "done", !.result = value]

\* The thread t takes its invocation from f to g; nothing else changes
Step(t, g) ==
    /\ frames' = [frames EXCEPT ![t] = g]
    /\ UNCHANGED <<scoreVars, normVars, histVars, storeVars, altVars>>

\* parse_crypto_data(data): the guard, then one element of data['data'] at a
\* time into the local crypto_list (kept in f.dates)
ParseCryptoDataStep(t) ==
    LET f == frames[t]
        p == f.input.data
    IN /\ f.fn = "parse_crypto_data"
       /\ f.pc \in {"start", "loop"}
       /\ UNCHANGED figures
       /\ Step(t,
            IF f.pc = "start"
            THEN IF LacksData(p) \/ p.kind = "nulldata" \/ p.shape # "list"
                 THEN Done(f, ReturnNone)
                 ELSE [f EXCEPT !.pc = "loop", !.i = 1]
            ELSE IF f.i > Len(p.records) THEN Done(f, Return(f.dates))
            ELSE IF HasNoGet(p.records[f.i]) THEN Done(f, Raise("AttributeError"))
            ELSE [f EXCEPT !.i = f.i + 1,
                           !.dates = Append(f.dates, ListRecord(p.records[f.i]))])

\* enhanced_investment_analysis(crypto_data, risk, budget): the guard and the
\* float() conversions, then the analysis dict built from the locals
EnhancedInvestmentAnalysisStep(t) ==
    LET f == frames[t]
        a == f.input.crypto_data
    IN /\ f.fn = "enhanced_investment_analysis"
       /\ f.pc \in {"start", "build"}
       /\ UNCHANGED figures
       /\ Step(t,
            IF f.pc = "start"
            THEN IF a.kind # "quote" THEN Done(f, Return(NoSignal))
                 ELSE [f EXCEPT !.pc = "build", !.i = CompositeScore(a)]
            ELSE Done(f, Return(Analysis(a, f.input.risk, f.input.budget))))

\* analyze_portfolio_opportunities: one asset of top_cryptos at a time into
\* the local opportunities (kept in f.dates), then the sort and the cut
AnalyzePortfolioOpportunitiesStep(t) ==
    LET f == frames[t]
        top_cryptos == f.input.top_cryptos
    IN /\ f.fn = "analyze_portfolio_opportunities"
       /\ f.pc \in {"start", "loop"}
       /\ UNCHANGED figures
       /\ Step(t,
            IF f.pc = "start"
            THEN IF top_cryptos = <<>> THEN Done(f, Return(<<>>))
                 ELSE [f EXCEPT !.pc = "loop", !.i = 1]
            ELSE IF f.i > Len(top_cryptos)
            THEN LET sorted == SortDescending(f.dates)
                 IN Done(f, Return(SubSeq(sorted, 1, Min2(TopN, Len(sorted)))))
            ELSE LET analysis == enhanced_investment_analysis(
                                     top_cryptos[f.i], f.input.risk, f.input.budget)
                 IN [f EXCEPT !.i = f.i + 1,
                              !.dates = IF analysis.ok /\ Recommended(analysis) > 0
                                        THEN Append(f.dates, analysis)
                                        ELSE f.dates])

\* generate_price_chart(symbol, history_data), the loop: the guard, then one
\* record of reversed(history_data) at a time into the locals dates and
\* prices, then the emptiness test
ChartLoopStep(t) ==
    LET f == frames[t]
        h == f.input.history_data
    IN /\ f.fn = "generate_price_chart"
       /\ f.pc \in {"start", "loop"}
       /\ UNCHANGED figures
       /\ Step(t,
            IF f.pc = "start"
            THEN IF h.isNone \/ Len(h.records) = 0 \/ h.rows
                 THEN Done(f, ReturnNone)
                 ELSE [f EXCEPT !.pc = "loop", !.i = Len(h.records)]
            ELSE IF f.i = 0
            THEN IF Len(f.dates) = 0 \/ Len(f.prices) = 0
                 THEN Done(f, ReturnNone)
                 ELSE [f EXCEPT !.pc = "subplots"]
            ELSE LET after == ParseRecord(h.records[f.i], f.dates, f.prices)
                 IN [f EXCEPT !.i = f.i - 1,
                              !.dates = after.dates,
                              !.prices = after.prices])

\* fig, ax = plt.subplots(...): a new figure enters the registry and becomes
\* the current one; num names it by the thread whose local `fig` holds it
PltSubplots(t) ==
    LET f == frames[t]
    IN /\ f.fn = "generate_price_chart"
       /\ f.pc = "subplots"
       /\ figures' = Append(figures, [num |-> t, title |-> "",
                                      dates |-> <<>>, prices |-> <<>>])
       /\ Step(t, [f EXCEPT !.pc = "plot"])

\* ax.plot(dates, prices, ...); ax.set_title(symbol ...): drawn on the
\* thread's own axes.  Lists of different lengths make ax.plot raise
\* ValueError, which the outer except turns into None (plt.close(fig) is
\* skipped: the figure stays in the registry).
AxPlot(t) ==
    LET f == frames[t]
    IN /\ f.fn = "generate_price_chart"
       /\ f.pc = "plot"
       /\ IF Len(f.dates) # Len(f.prices)
          THEN /\ UNCHANGED figures
               /\ Step(t, Done(f, ReturnNone))
          ELSE /\ figures' = [k \in 1..Len(figures) |->
                                 IF figures[k].num = t
                                 THEN [figures[k] EXCEPT !.title = f.input.symbol,
                                                         !.dates = f.dates,
                                                         !.prices = f.prices]
                                 ELSE figures[k]]
               /\ Step(t, [f EXCEPT !.pc = "savefig"])

\* plt.tight_layout(); plt.savefig(buf, ...): pyplot applies both to the
\* current figure of the process, the last one of the registry
PltSavefig(t) ==
    LET f == frames[t]
        gcf == figures[Len(figures)]
    IN /\ f.fn = "generate_price_chart"
       /\ f.pc = "savefig"
       /\ UNCHANGED figures
       /\ Step(t, [f EXCEPT !.pc = "close",
                            !.image = [title |-> gcf.title, dates |-> gcf.dates,
                                       prices |-> gcf.prices]])

\* plt.close(fig); return chart_base64
PltClose(t) ==
    LET f == frames[t]
    IN /\ f.fn = "generate_price_chart"
       /\ f.pc = "close"
       /\ figures' = SelectSeq(figures, LAMBDA g : g.num # t)
       /\ Step(t, Done(f, Return(f.image)))

\* What a call returns when no other call runs: the chart of its own symbol
\* and points
ChartAlone(symbol, h) ==
    LET g == generate_price_chart(h)
    IN IF g.chart = "None" \/ Len(g.dates) # Len(g.prices) THEN ReturnNone
       ELSE Return([title |-> symbol, dates |-> g.dates, prices |-> g.prices])

Alone(f) ==
    CASE f.fn = "parse_crypto_data" -> parse_crypto_data(f.input.data)
      [] f.fn = "enhanced_investment_analysis" ->
            Return(enhanced_investment_analysis(
                       f.input.crypto_data, f.input.risk, f.input.budget))
      [] f.fn = "analyze_portfolio_opportunities" ->
            Return(analyze_portfolio_opportunities(
                       f.input.top_cryptos, f.input.budget, f.input.risk))
      [] OTHER -> ChartAlone(f.input.symbol, f.input.history_data)

\* the invocations a thread may be given
ConcPayloads ==
    {ShapedPayload([kind |-> "data",
                    records |-> <<RawRecord("BTC", TRUE, TRUE, "usd", "present"),
                                  RawRecord("ETH", TRUE, FALSE, "usd", "null")>>],
                   "list"),
     ShapedPayload([kind |-> "data",
                    records |-> <<RawRecord("ETH", TRUE, TRUE, "usd", "present"),
                                  RawScalar>>],
                   "list"),
     ShapedPayload([kind |-> "nodata", records |-> <<>>], "list")}

ConcAssets == {Quote("BTC", 100, 12, 18, 6000, 800), MalformedAsset}

ConcListings ==
    {<<RankClass(2, "S01"), RankClass(1, "S02"), RankClass(5, "S03")>>,
     <<RankClass(3, "S01"), RankClass(4, "S02")>>,
     <<>>}

ConcCharts ==
    {[symbol |-> "BTC",
      history_data |-> HistoryList(
          <<HistoryRecord(Timestamp("isoZ", 6, FALSE), PriceValue("num", PriceAt(6))),
            HistoryRecord(Timestamp("isoZ", 5, FALSE), PriceValue("numstr", PriceAt(5)))>>)],
     [symbol |-> "ETH",
      history_data |-> HistoryList(
          <<HistoryRecord(Timestamp("isoT", 5, FALSE), PriceValue("num", PriceAt(5)))>>)],
     [symbol |-> "XRP",
      history_data |-> HistoryList(
          <<HistoryRecord(Timestamp("isoT", 6, FALSE), PriceValue("badstr", 0)),
            HistoryRecord(Timestamp("isoT", 5, FALSE), PriceValue("num", PriceAt(5)))>>)],
     [symbol |-> "ADA", history_data |-> NoHistory]}

Invocations ==
    {Invocation("parse_crypto_data", [data |-> p]) : p \in ConcPayloads}
    \cup {Invocation("enhanced_investment_analysis",
                     [crypto_data |-> a, risk |-> "medium", budget |-> NumBudget(1000)]) :
             a \in ConcAssets}
    \cup {Invocation("analyze_portfolio_opportunities",
                     [top_cryptos |-> l, risk |-> "high", budget |-> NumBudget(1000)]) :
             l \in ConcListings}
    \cup {Invocation("generate_price_chart", c) : c \in ConcCharts}

InitConc ==
    /\ ScoreIdle
    /\ NormIdle
    /\ HistIdle
    /\ StoreIdle
    /\ AltIdle
    /\ frames \in [Threads -> Invocations]
    /\ figures = <<>>

NextConc ==
    \E t \in Threads :
        \/ ParseCryptoDataStep(t)
        \/ EnhancedInvestmentAnalysisStep(t)
        \/ AnalyzePortfolioOpportunitiesStep(t)
        \/ ChartLoopStep(t)
        \/ PltSubplots(t)
        \/ AxPlot(t)
        \/ PltSavefig(t)
        \/ PltClose(t)

SpecConc == InitConc /\ [][NextConc]_vars

----------------------------------------------------------------------------
(* Claims about the scoring engine, checked under SpecScore *)

Called == calls # <<>>
Scored == Called /\ signal.ok

\* C1: for every asset that is scored successfully, confidence is an integer
\* equal to min(100, 10*|score|), hence within 0..100, and is determined by
\* the magnitude of the composite score alone.
C1_ConfidenceIsClampedMagnitude ==
    Scored =>
        /\ signal.confidence \in 0..100
        /\ signal.confidence =
               (IF 10 * Abs(score) < 100 THEN 10 * Abs(score) ELSE 100)

C1_Witness == Scored /\ score = -7 /\ signal.confidence = 70

\* C2: for every returned signal whose action is BUY or HOLD, for every risk
\* level and every budget, 0 <= min <= recommended <= max.
C2_RangeOrdering ==
    (Scored /\ signal.action \in {"BUY", "HOLD"}) =>
        /\ 0 <= signal.investment_range.min
        /\ signal.investment_range.min <= signal.investment_range.recommended
        /\ signal.investment_range.recommended <= signal.investment_range.max

C2_Witness ==
    /\ Scored
    /\ signal.action = "BUY"
    /\ 0 < signal.investment_range.min
    /\ signal.investment_range.min < signal.investment_range.recommended
    /\ signal.investment_range.recommended < signal.investment_range.max

\* C3: whenever the action is SELL (composite score <= -4) the three amounts
\* of investment_range are 0 whatever the budget and risk level; the asset
\* with changes -12/-18, market cap 1e9, volume 1e7, budget 1000, risk low is
\* such a case.
C3_Example ==
    /\ Called
    /\ asset.kind = "quote"
    /\ asset.percent_change_24h = -12
    /\ asset.percent_change_7d = -18
    /\ asset.market_cap = 100
    /\ asset.volume_24h = 1
    /\ budget = NumBudget(1000)
    /\ risk = "low"

C3_SellZeroing ==
    /\ (Scored /\ signal.action = "SELL") =>
           /\ score <= -4
           /\ signal.investment_range.min = 0
           /\ signal.investment_range.max = 0
           /\ signal.investment_range.recommended = 0
    /\ C3_Example =>
           /\ signal.ok
           /\ signal.action = "SELL"
           /\ signal.investment_range = [min |-> 0, max |-> 0, recommended |-> 0]

C3_Witness == C3_Example /\ signal.ok /\ signal.action = "SELL"

\* C5: action and timeframe are a function of the composite score alone:
\* >= 8 BUY/short, 4..7 BUY/medium, -3..3 HOLD/short, -7..-4 SELL/short,
\* <= -8 SELL/immediate; exactly one of the five cases applies to every
\* reachable score.
C5_Case(s) ==
    <<s >= 8, 4 <= s /\ s <= 7, -3 <= s /\ s <= 3, -7 <= s /\ s <= -4, s <= -8>>

C5_Decision == <<"BUY", "BUY", "HOLD", "SELL", "SELL">>
C5_Term == <<"short", "medium", "short", "short", "immediate">>

C5_ActionByThreshold ==
    Scored =>
        /\ Cardinality({i \in 1..5 : C5_Case(score)[i]}) = 1
        /\ \A i \in 1..5 :
               C5_Case(score)[i] =>
                   /\ signal.action = C5_Decision[i]
                   /\ signal.timeframe = C5_Term[i]

C5_Witness == Scored /\ score = -3 /\ signal.action = "HOLD"

\* C6: the composite score is the sum of the 24h term, the 7d term, the
\* market-cap term, the volume-ratio term and the trend term, each as
\* tabulated; consequently -17 <= score <= 20.
C6_Step(x, hi, mid) ==
    CASE x > hi -> 5
      [] x > mid /\ x <= hi -> 3
      [] x > 0 /\ x <= mid -> 1
      [] x = 0 -> 0
      [] x < 0 /\ x >= -mid -> -1
      [] x < -mid /\ x >= -hi -> -3
      [] x < -hi -> -5

C6_Cap(mc) ==
    CASE mc > 5000 -> 3
      [] mc > 1000 /\ mc <= 5000 -> 1
      [] mc <= 1000 -> -2

\* ratio taken as 0 when market_cap <= 0; otherwise compared exactly
C6_Vol(vol, mc) ==
    CASE mc <= 0 -> 0
      [] mc > 0 /\ 10 * vol > mc -> 2
      [] mc > 0 /\ 10 * vol <= mc /\ 20 * vol > mc -> 1
      [] mc > 0 /\ 20 * vol <= mc -> 0

C6_Trend(c24, c7) ==
    CASE c24 > 5 /\ c7 > 10 -> 5
      [] ~(c24 > 5 /\ c7 > 10) /\ c24 > 2 /\ c7 > 5 -> 3
      [] c24 < -5 /\ c7 < -10 -> -5
      [] ~(c24 < -5 /\ c7 < -10) /\ c24 < -2 /\ c7 < -5 -> -3
      [] OTHER -> 0

C6_ScoreIsSumOfTerms ==
    Scored =>
        /\ score = C6_Step(asset.percent_change_24h, 10, 5)
                   + C6_Step(asset.percent_change_7d, 15, 10)
                   + C6_Cap(asset.market_cap)
                   + C6_Vol(asset.volume_24h, asset.market_cap)
                   + C6_Trend(asset.percent_change_24h, asset.percent_change_7d)
        /\ -17 <= score
        /\ score <= 20

C6_Witness == Scored /\ score = -17

\* C7: base = budget * m with m = 0.5 (low), 1.0 (medium), 1.5 (high) and 1.0
\* for every other risk-level string; (min, recommended, max) is
\* (0.3, 0.5, 0.7)*base for score >= 8, (0.2, 0.3, 0.5)*base for 4..7 and
\* (0, 0.1, 0.3)*base for HOLD.  Budgets are those of the scoring contract
\* (a number, not negative).
C7_Tenths(r) ==
    CASE r = "low" -> 5
      [] r = "medium" -> 10
      [] r = "high" -> 15
      [] OTHER -> 10

C7_Fractions(s) ==
    CASE s >= 8 -> <<3, 5, 7>>
      [] s >= 4 /\ s <= 7 -> <<2, 3, 5>>
      [] OTHER -> <<0, 1, 3>>

C7_PositionSizing ==
    (Scored /\ budget.num /\ budget.v >= 0 /\ signal.action \in {"BUY", "HOLD"}) =>
        LET base == budget.v * C7_Tenths(risk)
            f == C7_Fractions(score)
        IN /\ signal.investment_range.min = f[1] * base
           /\ signal.investment_range.recommended = f[2] * base
           /\ signal.investment_range.max = f[3] * base

C7_Witness ==
    /\ Scored
    /\ risk = "extreme"
    /\ budget = NumBudget(1000)
    /\ signal.action = "HOLD"
    /\ signal.investment_range = [min |-> 0, max |-> 30000, recommended |-> 10000]

\* C8: target prices for price p and score s: BUY take_profit
\* p*(1+min(0.2, 0.03 s)), stop_loss p*(1-min(0.1, 0.02|s|)); SELL take_profit
\* p*(1-min(0.1, 0.02|s|)), stop_loss p*(1+min(0.05, 0.01|s|)); HOLD
\* take_profit 1.10 p, stop_loss 0.90 p.
C8_TargetPrices ==
    Scored =>
        LET p == asset.price
            m == Abs(score)
            tp == signal.target_prices.take_profit
            sl == signal.target_prices.stop_loss
        IN /\ signal.action = "BUY" =>
                  /\ tp = p * (100 + Min2(20, 3 * score))
                  /\ sl = p * (100 - Min2(10, 2 * m))
           /\ signal.action = "SELL" =>
                  /\ tp = p * (100 - Min2(10, 2 * m))
                  /\ sl = p * (100 + Min2(5, m))
           /\ signal.action = "HOLD" =>
                  /\ tp = p * 110
                  /\ sl = p * 90

C8_Witness ==
    /\ Scored
    /\ signal.action = "SELL"
    /\ asset.price = 100
    /\ score = -4
    /\ signal.target_prices = [take_profit |-> 9200, stop_loss |-> 10400]

\* C9: the asset {price 100, 24h 12, 7d 18, market cap 60e9, volume 8e9} with
\* risk medium and budget 1000 gives score >= 8, BUY, short-term, confidence
\* 100, recommended 500, take_profit 120 and stop_loss 90.
C9_Example ==
    /\ Called
    /\ asset.kind = "quote"
    /\ asset.price = 100
    /\ asset.percent_change_24h = 12
    /\ asset.percent_change_7d = 18
    /\ asset.market_cap = 6000
    /\ asset.volume_24h = 800
    /\ risk = "medium"
    /\ budget = NumBudget(1000)

C9_Scenario ==
    C9_Example =>
        /\ signal.ok
        /\ score >= 8
        /\ signal.action = "BUY"
        /\ signal.timeframe = "short"
        /\ signal.confidence = 100
        /\ signal.investment_range.recommended = 50000
        /\ signal.target_prices.take_profit = 12000
        /\ signal.target_prices.stop_loss = 9000

C9_Witness == C9_Example /\ signal.ok /\ score = 20

\* C4: two scoring calls with identical (asset, risk level, budget) return
\* identical signals, in any order and with any other calls in between.
\* Checked under Spec on the log of calls.
SameArguments(c, d) ==
    /\ c.fn = "analyze"
    /\ d.fn = "analyze"
    /\ c.asset = d.asset
    /\ c.risk = d.risk
    /\ c.budget = d.budget

RECURSIVE C10_SignalsOf(_)
C10_SignalsOf(u) ==
    IF u = <<>> THEN <<>>
    ELSE <<enhanced_investment_analysis(Head(u), risk, budget)>>
         \o C10_SignalsOf(Tail(u))

C10_Signals == C10_SignalsOf(universe)

\* the kept universe indices, given the signals
C10_Kept(sigs) ==
    {i \in 1..Len(universe) :
        sigs[i].ok /\ sigs[i].investment_range.recommended > 0}

\* position of universe element i among the kept signals
C10_Position(sigs, kept, i) ==
    1 + Cardinality({j \in kept :
            \/ sigs[j].investment_range.recommended
                   > sigs[i].investment_range.recommended
            \/ /\ sigs[j].investment_range.recommended
                      = sigs[i].investment_range.recommended
               /\ j < i})

C10_StableTopTen ==
    Called =>
        LET sigs == C10_Signals
            kept == C10_Kept(sigs)
        IN /\ Len(opportunities) =
                  (IF Cardinality(kept) < 10 THEN Cardinality(kept) ELSE 10)
           /\ \A i \in kept :
                  LET k == C10_Position(sigs, kept, i)
                  IN k <= 10 => opportunities[k] = sigs[i]
           /\ \A k \in 1..Len(calls) : calls[k].result = opportunities

C10_Witness ==
    /\ Len(calls) = 2
    /\ Cardinality(C10_Kept(C10_Signals)) > 10
    /\ Len(universe) > Cardinality(C10_Kept(C10_Signals))
    /\ Len(opportunities) = 10
    /\ \E k \in 1..9 :
           /\ opportunities[k].investment_range.recommended
                  = opportunities[k + 1].investment_range.recommended
           /\ opportunities[k] # opportunities[k + 1]
    /\ \E k \in 1..9 :
           opportunities[k].investment_range.recommended
               > opportunities[k + 1].investment_range.recommended

----------------------------------------------------------------------------
(* Claims about failures and missing data *)

\* C11: in the ranking, an asset whose scoring fails (a field that float()
\* rejects) is left out and every other asset is still scored and ranked:
\* the result holds no failed asset and has as many entries as there are
\* other assets with a positive recommended amount, up to 10.  Checked under
\* SpecRank.
C11_Failed == {i \in 1..Len(universe) : universe[i].kind = "malformed"}

\* what the sizing rubric recommends for a numeric quote is positive exactly
\* for a positive budget and an action other than SELL (score >= -3)
C11_Rankable ==
    {i \in 1..Len(universe) :
        /\ universe[i].kind = "quote"
        /\ budget.v > 0
        /\ CompositeScore(universe[i]) >= -3}

C12_NoPayload == payload.kind \in {"none", "empty", "nodata"}
C12_NoHistory == history.isNone \/ history.records = <<>>

C12_NoDataNoOutput ==
    /\ (C12_NoPayload /\ listResult.status # "pending") =>
           listResult.status = "none"
    /\ (C12_NoPayload /\ singleResult.status # "pending") =>
           singleResult.status = "none"
    /\ \A i \in 1..Len(calls) :
           /\ (calls[i].fn = "analyze" /\ calls[i].asset.kind = "empty") =>
                  ~calls[i].result.ok
           /\ (calls[i].fn = "rank" /\ calls[i].universe = <<>>) =>
                  calls[i].result = <<>>
    /\ (C12_NoHistory /\ chart # "pending") =>
           chart = "None" /\ dates = <<>> /\ prices = <<>>

C12_Witness ==
    /\ payload.kind = "none"
    /\ listResult.status = "none"
    /\ singleResult.status = "none"
    /\ Len(calls) = 2
    /\ asset.kind = "empty"
    /\ universe = <<>>
    /\ history.isNone
    /\ chart = "None"

----------------------------------------------------------------------------
(* Claims about the normalizer, checked under SpecNorm *)

\* a mapping whose quote is a mapping or is missing
WellFormed(r) == r.kind = "record" /\ r.quote # "bad"

AllWellFormed == \A i \in 1..Len(payload.records) : WellFormed(payload.records[i])

\* the records a parser outcome holds
ListProduced == IF listResult.status = "ok" THEN listResult.value ELSE <<>>
SingleProduced == IF singleResult.status = "ok" THEN <<singleResult.value>> ELSE <<>>

\* what upstream says about a record: its name, its symbol, a number
SaidName(r) == IF r.hasName THEN Upstream(r.sym).name ELSE "Unknown"
SaidSymbol(r) == IF r.hasSymbol THEN r.sym ELSE "Unknown"
QuoteSays(r) == r.quote = "usd" /\ r.nums = "present"
ItemSays(r) == r.nums = "present"

\* C13 as stated: a keyed mapping of k records yields k canonical records,
\* one per mapping value, in iteration order.
C13_OnePerValue ==
    (singleResult.status # "pending" /\ payload.kind = "data" /\ AllWellFormed) =>
        /\ Len(SingleProduced) = Len(payload.records)
        /\ \A i \in 1..Len(SingleProduced) :
               SingleProduced[i].symbol = SaidSymbol(payload.records[i])

\* C13 amended: a keyed mapping whose first value is a well-formed record
\* yields exactly one canonical record, that of the first entry in iteration
\* order, whatever the number of entries; an empty mapping yields None.
C13_FirstValueOnly ==
    (singleResult.status # "pending" /\ payload.kind = "data") =>
        /\ payload.records = <<>> => singleResult.status = "none"
        /\ (payload.records # <<>> /\ WellFormed(payload.records[1])) =>
               /\ singleResult.status = "ok"
               /\ Len(SingleProduced) = 1
               /\ singleResult.value.name = SaidName(payload.records[1])
               /\ singleResult.value.symbol = SaidSymbol(payload.records[1])
               /\ singleResult.value.price =
                      (IF QuoteSays(payload.records[1])
                       THEN Upstream(payload.records[1].sym).price ELSE 0)

C13_Witness ==
    /\ Len(payload.records) = 2
    /\ AllWellFormed
    /\ payload.records[1].hasSymbol
    /\ payload.records[2].hasSymbol
    /\ payload.records[1].sym # payload.records[2].sym
    /\ singleResult.status = "ok"
    /\ singleResult.value.symbol = payload.records[1].sym

\* C14 as stated: a raw record without name or symbol is skipped, the other
\* records are returned, and no canonical record carries a placeholder.
C14_Named(r) == r.hasName /\ r.hasSymbol

C15_QuoteFields ==
    {"price", "market_cap", "volume_24h", "percent_change_24h", "percent_change_7d"}
C15_MapOnlyFields == {"percent_change_1h", "circulating_supply", "max_supply"}

C15_AllNumericFields ==
    /\ \A k \in 1..Len(ListProduced) :
           (C15_QuoteFields \cup C15_MapOnlyFields) \subseteq DOMAIN ListProduced[k]
    /\ \A k \in 1..Len(SingleProduced) :
           (C15_QuoteFields \cup C15_MapOnlyFields) \subseteq DOMAIN SingleProduced[k]

\* C15 amended: a record of the map-shaped path carries all eight numeric
\* fields; a record of the list-shaped path carries price, market_cap,
\* volume_24h, percent_change_24h and percent_change_7d and lacks
\* percent_change_1h, circulating_supply and max_supply; every carried
\* numeric field is 0 when the upstream value is absent or null.
C15_CarriedFieldsDefaultToZero ==
    /\ \A k \in 1..Len(ListProduced) :
           LET r == payload.records[k]
               v == ListProduced[k]
           IN /\ C15_QuoteFields \subseteq DOMAIN v
              /\ C15_MapOnlyFields \cap DOMAIN v = {}
              /\ ~QuoteSays(r) =>
                     /\ v.price = 0
                     /\ v.market_cap = 0
                     /\ v.volume_24h = 0
                     /\ v.percent_change_24h = 0
                     /\ v.percent_change_7d = 0
              /\ QuoteSays(r) => v.percent_change_7d = Upstream(r.sym).percent_change_7d
    /\ \A k \in 1..Len(SingleProduced) :
           LET r == payload.records[1]
               v == SingleProduced[k]
           IN /\ (C15_QuoteFields \cup C15_MapOnlyFields) \subseteq DOMAIN v
              /\ (r.kind = "null" \/ ~QuoteSays(r)) =>
                     /\ v.price = 0
                     /\ v.market_cap = 0
                     /\ v.volume_24h = 0
                     /\ v.percent_change_1h = 0
                     /\ v.percent_change_24h = 0
                     /\ v.percent_change_7d = 0
              /\ (r.kind = "null" \/ ~ItemSays(r)) =>
                     /\ v.circulating_supply = 0
                     /\ v.max_supply = 0

C15_Witness ==
    /\ Len(payload.records) = 1
    /\ payload.records[1].kind = "record"
    /\ payload.records[1].quote = "usd"
    /\ payload.records[1].nums = "null"
    /\ listResult.status = "ok"
    /\ listResult.value[1].price = 0
    /\ singleResult.status = "ok"
    /\ singleResult.value.max_supply = 0

\* C16: for any raw record r, the list-shaped payload [r] and the map-shaped
\* payload {symbol: r} give the same name, symbol, price, market_cap,
\* volume_24h, percent_change_24h and percent_change_7d, and both paths
\* succeed or both fail on r.
C16_ShapeEquivalence ==
    (Len(payload.records) = 1 /\ listResult.status # "pending"
        /\ singleResult.status # "pending") =>
        \/ /\ listResult.status = "ok"
           /\ singleResult.status = "ok"
           /\ Len(listResult.value) = 1
           /\ \A f \in C15_QuoteFields \cup {"name", "symbol"} :
                  listResult.value[1][f] = singleResult.value[f]
        \/ /\ listResult.status # "ok"
           /\ singleResult.status # "ok"

\* C17: for a list-shaped payload with any malformed element,
\* parse_crypto_data still returns the canonical records of all well-formed
\* elements, in order, and get_top_cryptocurrencies still returns them.
C17_WellFormedIndices == {i \in 1..Len(payload.records) : WellFormed(payload.records[i])}

C17_Survivors(value) ==
    /\ Len(value) = Cardinality(C17_WellFormedIndices)
    /\ \A i \in C17_WellFormedIndices :
           LET k == Cardinality({j \in C17_WellFormedIndices : j <= i})
           IN value[k].symbol = SaidSymbol(payload.records[i])

C17_PartialFailureTolerant ==
    /\ (payload.kind = "data" /\ listResult.status # "pending") =>
           listResult.status = "ok" /\ C17_Survivors(listResult.value)
    /\ (payload.kind = "data" /\ topResult.status # "pending") =>
           topResult.status = "ok" /\ C17_Survivors(topResult.value)

----------------------------------------------------------------------------
(* Claims about the history parser, checked under SpecHist *)

Charted == chart # "pending" /\ ~history.isNone

\* the record of the example: timestamp '2024-01-05T00:00:00Z', price '45000.5'
C18_IsExample(r) ==
    /\ r.timestamp.kind = "isoZ"
    /\ r.timestamp.t = 5
    /\ r.price.kind = "numstr"
    /\ r.price.v = 450005

C18_Dropped(r) == r.price.kind = "none" \/ r.timestamp.kind = "badstr"

C18_KeptIndices == {i \in 1..Len(history.records) : ~C18_Dropped(history.records[i])}

\* C18: the record ('2024-01-05T00:00:00Z', '45000.5') yields the point
\* (2024-01-05T00:00:00 UTC, 45000.5); a record whose price is null is
\* dropped; a record whose timestamp is 'not-a-date' is dropped; there are
\* never more output points than input records.
C18_HistoryParseTolerance ==
    Charted =>
        /\ Len(dates) <= Len(history.records)
        /\ Len(prices) <= Len(history.records)
        /\ Len(dates) <= Cardinality(C18_KeptIndices)
        /\ Len(prices) <= Cardinality(C18_KeptIndices)
        /\ \A i \in 1..Len(history.records) :
               C18_IsExample(history.records[i]) =>
                   /\ \E k \in 1..Len(dates) : dates[k] = Timestamp("instant", 5, TRUE)
                   /\ \E k \in 1..Len(prices) : prices[k] = 450005
        /\ (Len(history.records) = 1 /\ C18_IsExample(history.records[1])) =>
               /\ dates = <<Timestamp("instant", 5, TRUE)>>
               /\ prices = <<450005>>
               /\ chart = "plot"
        /\ (Len(history.records) = 1 /\ C18_Dropped(history.records[1])) =>
               /\ dates = <<>>
               /\ prices = <<>>
               /\ chart = "None"

C18_Witness ==
    /\ Charted
    /\ Len(history.records) = 2
    /\ C18_IsExample(history.records[1])
    /\ history.records[2].price.kind = "none"
    /\ dates = <<Timestamp("instant", 5, TRUE)>>
    /\ prices = <<450005>>

\* C19: a timestamp is accepted only if it is an ISO-8601 string or an
\* already-resolved instant; a record whose timestamp is missing/None, a
\* number or another non-string value is dropped and contributes no point.
C19_Accepted(ts) == ts.kind \in {"isoZ", "isoT", "isoDate", "instant"}

C19_OnlyInstantsKept ==
    Charted =>
        /\ \A k \in 1..Len(dates) : dates[k].kind = "instant"
        /\ Len(dates) <= Cardinality({i \in 1..Len(history.records) :
                             C19_Accepted(history.records[i].timestamp)})
        /\ Len(prices) <= Cardinality({i \in 1..Len(history.records) :
                              C19_Accepted(history.records[i].timestamp)})

\* C20: a record whose price is present but not coercible to a float adds
\* neither a date nor a price, so dates and prices always have equal length.
C20_Coercible(price) == price.kind \in {"num", "numstr"}

C20_DatesAndPricesAligned ==
    Charted =>
        /\ Len(dates) = Len(prices)
        /\ Len(prices) = Cardinality({i \in 1..Len(history.records) :
                              /\ C20_Coercible(history.records[i].price)
                              /\ history.records[i].timestamp.kind # "badstr"})

----------------------------------------------------------------------------
(* Claims about the store and its routes, checked under SpecStore and
   SpecLists *)

C21_Survives(r) ==
    /\ r.timestamp.kind \in {"isoZ", "isoT", "isoDate", "instant"}
    /\ r.price.kind \in {"num", "numstr"}

C21_SurvivorIndices ==
    {i \in 1..Len(history.records) : C21_Survives(history.records[i])}

\* the input is in one consistent timestamp order
C21_Ordered ==
    \/ \A i, j \in 1..Len(history.records) :
           i < j => history.records[i].timestamp.t <= history.records[j].timestamp.t
    \/ \A i, j \in 1..Len(history.records) :
           i < j => history.records[i].timestamp.t >= history.records[j].timestamp.t

\* C21: the parser's output is the surviving records in reverse of arrival
\* order, so the newest-first rows of database.get_historical_prices come out
\* oldest to newest, and the output is ascending by timestamp whenever the
\* input is in one consistent order.
C21_ChronologicalOutput ==
    (chart # "pending" /\ ~history.isNone) =>
        /\ Len(dates) = Cardinality(C21_SurvivorIndices)
        /\ Len(prices) = Cardinality(C21_SurvivorIndices)
        /\ \A i \in C21_SurvivorIndices :
               LET k == Cardinality({j \in C21_SurvivorIndices : j >= i})
               IN /\ dates[k].t = history.records[i].timestamp.t
                  /\ prices[k] = history.records[i].price.v
        /\ C21_Ordered =>
               \A k \in 1..(Len(dates) - 1) : dates[k].t <= dates[k + 1].t

\* C27: user_watchlist holds at most one row per symbol; adding a symbol
\* that is already present inserts nothing and is answered 'Already in
\* watchlist'.
C27_RowsOf(symbol) ==
    {i \in 1..Len(user_watchlist) : user_watchlist[i].symbol = symbol}

C27_OneRowPerSymbol ==
    /\ \A raw \in RawSymbols : Cardinality(C27_RowsOf(UpperStrip(raw))) <= 1
    /\ (request.route = "watchlist_add" /\ response.code = 200) =>
           /\ Cardinality(C27_RowsOf(UpperStrip(request.symbol))) = 1
           /\ response.success = "true" =>
                  user_watchlist[Len(user_watchlist)].symbol = UpperStrip(request.symbol)

\* C28: every price_history row references an existing cryptocurrencies
\* row, so get_historical_prices(symbol, days) returns every point saved for
\* the symbol within the window, one per save timestamp, newest first;
\* saving a symbol again never makes its earlier points unreachable.
C28_SavedAt(symbol, days) ==
    {saves[i].timestamp : i \in {i \in 1..Len(saves) :
                                    /\ saves[i].symbol = symbol
                                    /\ saves[i].timestamp >= now - days}}

C28_EverySavedPointReachable ==
    /\ \A ph \in price_history : \E c \in cryptocurrencies : c.id = ph.crypto_id
    /\ \A symbol \in StoreSymbols, days \in Windows :
           LET rows == get_historical_prices(symbol, days).records
           IN /\ {rows[k].timestamp.t : k \in 1..Len(rows)} = C28_SavedAt(symbol, days)
              /\ \A k \in 1..(Len(rows) - 1) :
                     rows[k].timestamp.t > rows[k + 1].timestamp.t

\* C29: POST /api/portfolio/add with a non-empty symbol and positive numeric
\* amount and cost appends exactly one row to user_portfolio and answers
\* success = true; with an empty symbol or a non-numeric or non-positive
\* amount or cost it answers 400 and leaves user_portfolio unchanged.
C29_Positive(x) == x.kind \in {"num", "numstr"} /\ x.v > 0

C29_Valid(req) ==
    /\ UpperStrip(req.symbol) # ""
    /\ C29_Positive(req.amount)
    /\ C29_Positive(req.cost)

C29_PortfolioAddContract ==
    [][(/\ request'.route = "portfolio_add"
        /\ <<request, response, user_portfolio>>' # <<request, response, user_portfolio>>) =>
           IF C29_Valid(request')
           THEN /\ response'.code = 200
                /\ response'.success = "true"
                /\ Len(user_portfolio') = Len(user_portfolio) + 1
                /\ SubSeq(user_portfolio', 1, Len(user_portfolio)) = user_portfolio
                /\ user_portfolio'[Len(user_portfolio')].symbol = UpperStrip(request'.symbol)
           ELSE /\ response'.code = 400
                /\ user_portfolio' = user_portfolio]_vars

----------------------------------------------------------------------------
(* Further claims about the scoring engine, checked under SpecScore *)

\* C24: the action never contradicts the trend signal placed first in
\* technical_signals: 'strong uptrend' comes with BUY / short-term (score >=
\* 8), 'stable uptrend' never with SELL, 'strong downtrend' always with
\* SELL, 'mild downtrend' never with BUY, for every market cap and volume.
C24_ActionFollowsTrend ==
    Scored =>
        LET trend == signal.technical_signals[1]
        IN /\ trend = "buy: strong uptrend" =>
                  /\ score >= 8
                  /\ signal.action = "BUY"
                  /\ signal.timeframe = "short"
           /\ trend = "hold: stable uptrend" => signal.action # "SELL"
           /\ trend = "sell: strong downtrend" => signal.action = "SELL"
           /\ trend = "watch: mild downtrend" => signal.action # "BUY"

C24_Witness ==
    /\ Scored
    /\ signal.technical_signals[1] = "sell: strong downtrend"
    /\ asset.market_cap > 5000
    /\ Len(signal.technical_signals) = 2
    /\ score = -6
    /\ signal.action = "SELL"

C25_InScope == Scored /\ risk \in {"low", "medium", "high"} /\ budget.num /\ budget.v > 0

\* C25 as stated: for every risk level in {low, medium, high}, budget > 0
\* and asset, investment_range.max <= budget and recommended <= budget
\* (amounts in hundredths of a USD).
C25_MaxWithinBudget ==
    C25_InScope =>
        /\ signal.investment_range.max <= 100 * budget.v
        /\ signal.investment_range.recommended <= 100 * budget.v

\* C25 amended: the recommended amount never exceeds the budget (it is at
\* most 0.75 x budget); investment_range.max is at most the budget for low
\* and medium risk and at most 1.05 x budget for high risk.
C25_MaxWithinBudgetUnlessHigh ==
    C25_InScope =>
        /\ signal.investment_range.recommended <= 75 * budget.v
        /\ risk \in {"low", "medium"} =>
               signal.investment_range.max <= 100 * budget.v
        /\ risk = "high" => signal.investment_range.max <= 105 * budget.v

C25_Witness ==
    /\ C25_InScope
    /\ risk = "high"
    /\ score >= 8
    /\ budget.v = 1000
    /\ signal.investment_range.max = 105000
    /\ signal.investment_range.recommended = 75000

\* C26: when price > 0 both target prices are > 0 and bracket the price on
\* the side of the action: BUY and HOLD have 0 < stop_loss < price <
\* take_profit, SELL has 0 < take_profit < price < stop_loss (targets in
\* hundredths of a USD).
C26_TargetsBracketPrice ==
    (Scored /\ asset.price > 0) =>
        LET p == 100 * asset.price
            tp == signal.target_prices.take_profit
            sl == signal.target_prices.stop_loss
        IN /\ signal.action \in {"BUY", "HOLD"} => (0 < sl /\ sl < p /\ p < tp)
           /\ signal.action = "SELL" => (0 < tp /\ tp < p /\ p < sl)

C26_Witness ==
    /\ Scored
    /\ asset.price = 100
    /\ score = 4
    /\ signal.action = "BUY"
    /\ signal.target_prices.stop_loss = 9200
    /\ signal.target_prices.take_profit = 11200

----------------------------------------------------------------------------
(* Claims about the two implementations of the scoring function, checked
   under SpecBoth *)

BothScored == Scored /\ altSignal.status = "ok"

C23_TrendPoints(trend) ==
    CASE trend = "buy: strong uptrend" -> 5
      [] trend = "hold: stable uptrend" -> 3
      [] trend = "sell: strong downtrend" -> -5
      [] trend = "watch: mild downtrend" -> -3
      [] OTHER -> 0

----------------------------------------------------------------------------
(* Claims about concurrent invocations, checked under SpecConc *)

Finished(t) == frames[t].pc = "done"

====
